---- MODULE Spec2Model ----
(***************************************************************************)
(* Model of the hydra editor scripts of o3de-atomtest.                     *)
(*                                                                         *)
(* Every script is a straight-line Python program that drives the editor   *)
(* (the host) through its scripting bus.  A script is modelled as the      *)
(* sequence of the statements it executes, each statement an instruction   *)
(* record; one interpreter action per kind of statement executes them.     *)
(* The host is the environment: a key/value store of what the script can   *)
(* observe (game mode, entity existence, component presence, visibility,   *)
(* property values), a command stack for undo/redo, and a set of effects   *)
(* it has accepted but not applied yet.  The host applies a requested      *)
(* effect at once or, at most MaxFaults times per run, defers it; a        *)
(* deferred effect is applied at some later idle tick or never.            *)
(*                                                                         *)
(* Time is counted in idle ticks, TicksPerHalfSecond to the half second;   *)
(* durations in the instructions are in half seconds (1.0 s = 2).          *)
(***************************************************************************)
EXTENDS Integers, Sequences, FiniteSets, TLC

\* ---------------------------------------------------------------- bounds
MaxFaults == 2
TicksPerHalfSecond == 1

\* ------------------------------------------------------- instruction set
NoKey == <<"", "">>
NoEffect == <<>>

Ins(op) ==
  [op |-> op, test |-> "", chk |-> "", api |-> "", ent |-> "", idref |-> "",
   eff |-> NoEffect, undoable |-> FALSE, key |-> NoKey, val |-> "", t |-> 0,
   prefix |-> "", text |-> "", skip |-> 0, arg |-> <<>>]

Range(f) == {f[i] : i \in DOMAIN f}

Eff(key, old, new) == [key |-> key, old |-> old, new |-> new]

\* A call into the host scripting API.  idref is the entity whose id the call
\* is given ("" when it takes none), eff the effects it asks the host for.
HostCall(api, chk, idref, eff, undoable) ==
  [Ins("call") EXCEPT !.api = api, !.chk = chk, !.idref = idref, !.eff = eff,
                      !.undoable = undoable]

\* general.undo() / general.redo(): the effect comes from the command stack.
UndoCall(chk) == [Ins("undo") EXCEPT !.api = "undo", !.chk = chk]
RedoCall(chk) == [Ins("redo") EXCEPT !.api = "redo", !.chk = chk]

\* general.idle_wait(seconds)
idle_wait(t) == [Ins("idle") EXCEPT !.api = "idle_wait", !.t = t]

\* general.log(f"{prefix}{text}{host[key] = val}")
LogCond(chk, prefix, text, key, val, idref) ==
  [Ins("log") EXCEPT !.chk = chk, !.prefix = prefix, !.text = text, !.key = key,
                     !.val = val, !.idref = idref]

\* general.log(text) of a literal
LogText(text) == [Ins("say") EXCEPT !.text = text]

\* ScreenshotHelper(...).capture_screenshot_blocking(name)
capture_screenshot_blocking(name) ==
  [Ins("capture") EXCEPT !.api = "capture_screenshot_blocking", !.text = name]

\* screenshotHelper.capture_screenshot_blocking_in_game_mode(name)
capture_screenshot_blocking_in_game_mode(name) ==
  [Ins("capture") EXCEPT !.api = "capture_screenshot_blocking_in_game_mode", !.text = name]

\* Automated.atom_utils.automated_test_utils.TestHelper.wait_for_condition's
\* default timeout, in half seconds.
DefaultTimeout == 4

\* helper.wait_for_condition(lambda: host[key] = val, timeout)
wait_for_condition(chk, key, val, t, idref) ==
  [Ins("wait") EXCEPT !.api = "wait_for_condition", !.chk = chk, !.key = key,
                      !.val = val, !.t = t, !.idref = idref]

InTest(name, seq) == [i \in 1..Len(seq) |-> [seq[i] EXCEPT !.test = name]]

GameKey == <<"editor", "game_mode">>

\* ------------------------------------ AllComponentsIndepthTests_test_case

\* create_entity_undo_redo_component_addition without its general.redo().
create_entity_undo_component_addition_only(entity_name, component) ==
  LET has == <<entity_name, "has " \o component>>
      pre == entity_name \o "_test: "
  IN << HostCall("create_entity", entity_name \o "/create", "",
                 << Eff(<<entity_name, "exists">>, "false", "true"),
                    Eff(has, "false", "true") >>, TRUE),
        LogCond(entity_name \o "/create", pre, "Component added to the entity: ",
                has, "true", entity_name),
        UndoCall(entity_name \o "/undo add"),
        wait_for_condition(entity_name \o "/undo add", has, "false", 4, entity_name),
        LogCond(entity_name \o "/undo add", pre, "Component removed after UNDO: ",
                has, "false", entity_name),
        wait_for_condition(entity_name \o "/redo add", has, "true", 4, entity_name),
        LogCond(entity_name \o "/redo add", pre, "Component added after REDO: ",
                has, "true", entity_name) >>

create_entity_undo_redo_component_addition(entity_name, component) ==
  LET has == <<entity_name, "has " \o component>>
      pre == entity_name \o "_test: "
  IN << HostCall("create_entity", entity_name \o "/create", "",
                 << Eff(<<entity_name, "exists">>, "false", "true"),
                    Eff(has, "false", "true") >>, TRUE),
        LogCond(entity_name \o "/create", pre, "Component added to the entity: ",
                has, "true", entity_name),
        UndoCall(entity_name \o "/undo add"),
        wait_for_condition(entity_name \o "/undo add", has, "false", 4, entity_name),
        LogCond(entity_name \o "/undo add", pre, "Component removed after UNDO: ",
                has, "false", entity_name),
        RedoCall(entity_name \o "/redo add"),
        wait_for_condition(entity_name \o "/redo add", has, "true", 4, entity_name),
        LogCond(entity_name \o "/redo add", pre, "Component added after REDO: ",
                has, "true", entity_name) >>

\* verify_enter_exit_game_mode with the "Entered game mode" line logged a second
\* time: a step that does not log its line exactly once.
verify_enter_exit_game_mode_logging_twice(entity_name) ==
  LET pre == entity_name \o "_test: "
  IN << HostCall("enter_game_mode", entity_name \o "/enter", "",
                 <<Eff(GameKey, "false", "true")>>, FALSE),
        wait_for_condition(entity_name \o "/enter", GameKey, "true", 2, ""),
        LogCond(entity_name \o "/enter", pre, "Entered game mode: ", GameKey, "true", ""),
        LogCond(entity_name \o "/enter", pre, "Entered game mode: ", GameKey, "true", ""),
        HostCall("exit_game_mode", entity_name \o "/exit", "",
                 <<Eff(GameKey, "true", "false")>>, FALSE),
        wait_for_condition(entity_name \o "/exit", GameKey, "false", 2, ""),
        LogCond(entity_name \o "/exit", pre, "Exit game mode: ", GameKey, "false", "") >>

verify_enter_exit_game_mode(entity_name) ==
  LET pre == entity_name \o "_test: "
  IN << HostCall("enter_game_mode", entity_name \o "/enter", "",
                 <<Eff(GameKey, "false", "true")>>, FALSE),
        wait_for_condition(entity_name \o "/enter", GameKey, "true", 2, ""),
        LogCond(entity_name \o "/enter", pre, "Entered game mode: ", GameKey, "true", ""),
        HostCall("exit_game_mode", entity_name \o "/exit", "",
                 <<Eff(GameKey, "true", "false")>>, FALSE),
        wait_for_condition(entity_name \o "/exit", GameKey, "false", 2, ""),
        LogCond(entity_name \o "/exit", pre, "Exit game mode: ", GameKey, "false", "") >>

\* take_screenshot_game_mode capturing only when the poll for game mode
\* succeeded: an invocation that may produce no artifact.
take_screenshot_game_mode_only_in_game_mode(screenshot_name) ==
  << HostCall("enter_game_mode", screenshot_name \o "/enter", "",
              <<Eff(GameKey, "false", "true")>>, FALSE),
     idle_wait(2),
     wait_for_condition(screenshot_name \o "/enter", GameKey, "true", DefaultTimeout, ""),
     [Ins("branch") EXCEPT !.api = "wait_for_condition", !.val = "False", !.skip = 1],
     capture_screenshot_blocking(screenshot_name \o ".ppm"),
     HostCall("exit_game_mode", screenshot_name \o "/exit", "",
              <<Eff(GameKey, "true", "false")>>, FALSE),
     wait_for_condition(screenshot_name \o "/exit", GameKey, "false", DefaultTimeout, "") >>

take_screenshot_game_mode(screenshot_name) ==
  << HostCall("enter_game_mode", screenshot_name \o "/enter", "",
              <<Eff(GameKey, "false", "true")>>, FALSE),
     idle_wait(2),
     wait_for_condition(screenshot_name \o "/enter", GameKey, "true", DefaultTimeout, ""),
     capture_screenshot_blocking(screenshot_name \o ".ppm"),
     HostCall("exit_game_mode", screenshot_name \o "/exit", "",
              <<Eff(GameKey, "true", "false")>>, FALSE),
     wait_for_condition(screenshot_name \o "/exit", GameKey, "false", DefaultTimeout, "") >>

verify_required_component_addition(entity_name, entity_obj, components_to_add) ==
  LET enabled == <<entity_obj \o ".components[0]", "enabled">>
      n == Len(components_to_add)
  IN << LogCond("", "", "Entity disabled initially: ", enabled, "false", entity_obj) >>
     \o [i \in 1..n |->
           HostCall("add_component", IF i = n THEN entity_name \o "/required" ELSE "",
                    entity_obj,
                    IF i = n THEN <<Eff(enabled, "false", "true")>> ELSE NoEffect, TRUE)]
     \o << idle_wait(2),
           wait_for_condition(entity_name \o "/required", enabled, "true", 2, entity_obj),
           LogCond(entity_name \o "/required", entity_name \o "_test: ",
                   "Entity enabled after adding required components: ",
                   enabled, "true", entity_obj) >>

verify_hide_unhide_entity(entity_name, entity_obj) ==
  LET hidden == <<entity_obj, "hidden">>
      pre == entity_name \o "_test: "
  IN << HostCall("set_visibility_state", entity_name \o "/hide", entity_obj,
                 <<Eff(hidden, "false", "true")>>, FALSE),
        idle_wait(2),
        wait_for_condition(entity_name \o "/hide", hidden, "true", 2, entity_obj),
        LogCond(entity_name \o "/hide", pre, "Entity is hidden: ", hidden, "true", entity_obj),
        HostCall("set_visibility_state", entity_name \o "/show", entity_obj,
                 <<Eff(hidden, "true", "false")>>, FALSE),
        wait_for_condition(entity_name \o "/show", hidden, "false", 2, entity_obj),
        LogCond(entity_name \o "/show", pre, "Entity is shown: ", hidden, "false", entity_obj) >>

\* verify_deletion_undo_redo idling a full second, its poll's whole timeout,
\* after the redo.
verify_deletion_undo_redo_idling_a_second(entity_name, entity_obj) ==
  LET exists == <<entity_obj, "exists">>
      pre == entity_name \o "_test: "
  IN << HostCall("delete_entity", entity_name \o "/delete", entity_obj,
                 <<Eff(exists, "true", "false")>>, TRUE),
        wait_for_condition(entity_name \o "/delete", exists, "false", 2, ""),
        LogCond(entity_name \o "/delete", pre, "Entity deleted: ", exists, "false", ""),
        UndoCall(entity_name \o "/undo delete"),
        wait_for_condition(entity_name \o "/undo delete", exists, "true", 2, ""),
        LogCond(entity_name \o "/undo delete", pre, "UNDO entity deletion works: ",
                exists, "true", ""),
        RedoCall(entity_name \o "/redo delete"),
        idle_wait(2),
        wait_for_condition(entity_name \o "/redo delete", exists, "false", 2, ""),
        LogCond(entity_name \o "/redo delete", pre, "REDO entity deletion works: ",
                exists, "false", "") >>

\* verify_deletion_undo_redo looking the deleted entity up by its id rather
\* than by its name.
verify_deletion_undo_redo_by_id(entity_name, entity_obj) ==
  LET exists == <<entity_obj, "exists">>
      pre == entity_name \o "_test: "
  IN << HostCall("delete_entity", entity_name \o "/delete", entity_obj,
                 <<Eff(exists, "true", "false")>>, TRUE),
        wait_for_condition(entity_name \o "/delete", exists, "false", 2, entity_obj),
        LogCond(entity_name \o "/delete", pre, "Entity deleted: ", exists, "false", entity_obj),
        UndoCall(entity_name \o "/undo delete"),
        wait_for_condition(entity_name \o "/undo delete", exists, "true", 2, ""),
        LogCond(entity_name \o "/undo delete", pre, "UNDO entity deletion works: ",
                exists, "true", ""),
        RedoCall(entity_name \o "/redo delete"),
        idle_wait(1),
        wait_for_condition(entity_name \o "/redo delete", exists, "false", 2, ""),
        LogCond(entity_name \o "/redo delete", pre, "REDO entity deletion works: ",
                exists, "false", "") >>

\* verify_deletion_undo_redo calling general.redo() where the code calls
\* general.undo() and the reverse.
verify_deletion_redo_undo(entity_name, entity_obj) ==
  LET exists == <<entity_obj, "exists">>
      pre == entity_name \o "_test: "
  IN << HostCall("delete_entity", entity_name \o "/delete", entity_obj,
                 <<Eff(exists, "true", "false")>>, TRUE),
        wait_for_condition(entity_name \o "/delete", exists, "false", 2, ""),
        LogCond(entity_name \o "/delete", pre, "Entity deleted: ", exists, "false", ""),
        RedoCall(entity_name \o "/undo delete"),
        wait_for_condition(entity_name \o "/undo delete", exists, "true", 2, ""),
        LogCond(entity_name \o "/undo delete", pre, "UNDO entity deletion works: ",
                exists, "true", ""),
        UndoCall(entity_name \o "/redo delete"),
        idle_wait(1),
        wait_for_condition(entity_name \o "/redo delete", exists, "false", 2, ""),
        LogCond(entity_name \o "/redo delete", pre, "REDO entity deletion works: ",
                exists, "false", "") >>

verify_deletion_undo_redo(entity_name, entity_obj) ==
  LET exists == <<entity_obj, "exists">>
      pre == entity_name \o "_test: "
  IN << HostCall("delete_entity", entity_name \o "/delete", entity_obj,
                 <<Eff(exists, "true", "false")>>, TRUE),
        wait_for_condition(entity_name \o "/delete", exists, "false", 2, ""),
        LogCond(entity_name \o "/delete", pre, "Entity deleted: ", exists, "false", ""),
        UndoCall(entity_name \o "/undo delete"),
        wait_for_condition(entity_name \o "/undo delete", exists, "true", 2, ""),
        LogCond(entity_name \o "/undo delete", pre, "UNDO entity deletion works: ",
                exists, "true", ""),
        RedoCall(entity_name \o "/redo delete"),
        idle_wait(1),
        wait_for_condition(entity_name \o "/redo delete", exists, "false", 2, ""),
        LogCond(entity_name \o "/redo delete", pre, "REDO entity deletion works: ",
                exists, "false", "") >>

\* general.log(f"{entity_name}_test: Property value is {host[key]} which matches {expected}")
verify_required_component_property_value(entity_name, component, property_path, expected_property_value) ==
  << [Ins("logprop") EXCEPT !.api = "GetComponentProperty",
                            !.idref = entity_name,
                            !.prefix = entity_name \o "_test: ",
                            !.key = <<component, property_path>>,
                            !.val = expected_property_value] >>

\* A property write the host applies synchronously: SetComponentProperty,
\* Entity.get_set_test, helper.set_component_property.
SetProperty(api, idref, component, property_path, value) ==
  HostCall(api, "", idref, <<Eff(<<component, property_path>>, "", value)>>, FALSE)

\* Any other host call with no effect the scripts observe.
Plain(api, idref) == HostCall(api, "", idref, NoEffect, FALSE)

LevelEntities ==
  <<"default_level", "global_skylight", "ground_plane", "directional_light", "sphere", "camera">>

\* area_light_component_test capturing AreaLight_3 before it raises the
\* intensity to 1000.0.
area_light_component_test_capturing_before_intensity ==
  LET name == "area_light"
      c0 == "area_light.components[0]"
      pair == "area_light.light_component_id_pair"
      light_type_property == "Controller|Configuration|Light type"
  IN InTest("area_light_component_test",
       create_entity_undo_redo_component_addition(name, "Light")
       \o << Plain("attach_component_to_entity", name),
             SetProperty("SetComponentProperty", name, pair, light_type_property, "LIGHT_TYPES[3]") >>
       \o verify_enter_exit_game_mode(name)
       \o verify_required_component_property_value(name, c0, light_type_property, "LIGHT_TYPES[3]")
       \o << SetProperty("get_set_test", name, c0, "Controller|Configuration|Color",
                         "Color(255.0, 0.0, 0.0, 0.0)") >>
       \o take_screenshot_game_mode("AreaLight_1")
       \o << SetProperty("get_set_test", name, c0,
                         "Controller|Configuration|Attenuation Radius|Mode", "1"),
             SetProperty("get_set_test", name, c0, "Controller|Configuration|Intensity", "0.0") >>
       \o take_screenshot_game_mode("AreaLight_2")
       \o take_screenshot_game_mode("AreaLight_3")
       \o << SetProperty("get_set_test", name, c0, "Controller|Configuration|Intensity", "1000.0") >>
       \o << SetProperty("SetComponentProperty", name, pair, light_type_property, "LIGHT_TYPES[2]") >>
       \o verify_required_component_property_value(name, c0, light_type_property, "LIGHT_TYPES[2]")
       \o << SetProperty("SetLocalRotation", name, name, "LocalRotation",
                         "Vector3(DEGREE_RADIAN_FACTOR * 90.0, 0.0, 0.0)") >>
       \o take_screenshot_game_mode("AreaLight_4")
       \o << SetProperty("SetComponentProperty", name, pair, light_type_property, "LIGHT_TYPES[1]") >>
       \o verify_required_component_property_value(name, c0, light_type_property, "LIGHT_TYPES[1]")
       \o take_screenshot_game_mode("AreaLight_5")
       \o << HostCall("delete_entity", "", name,
                      <<Eff(<<name, "exists">>, "true", "false")>>, TRUE) >>)

area_light_component_test ==
  LET name == "area_light"
      c0 == "area_light.components[0]"
      pair == "area_light.light_component_id_pair"
      light_type_property == "Controller|Configuration|Light type"
  IN InTest("area_light_component_test",
       create_entity_undo_redo_component_addition(name, "Light")
       \o << Plain("attach_component_to_entity", name),
             SetProperty("SetComponentProperty", name, pair, light_type_property, "LIGHT_TYPES[3]") >>
       \o verify_enter_exit_game_mode(name)
       \o verify_required_component_property_value(name, c0, light_type_property, "LIGHT_TYPES[3]")
       \o << SetProperty("get_set_test", name, c0, "Controller|Configuration|Color",
                         "Color(255.0, 0.0, 0.0, 0.0)") >>
       \o take_screenshot_game_mode("AreaLight_1")
       \o << SetProperty("get_set_test", name, c0,
                         "Controller|Configuration|Attenuation Radius|Mode", "1"),
             SetProperty("get_set_test", name, c0, "Controller|Configuration|Intensity", "0.0") >>
       \o take_screenshot_game_mode("AreaLight_2")
       \o << SetProperty("get_set_test", name, c0, "Controller|Configuration|Intensity", "1000.0") >>
       \o take_screenshot_game_mode("AreaLight_3")
       \o << SetProperty("SetComponentProperty", name, pair, light_type_property, "LIGHT_TYPES[2]") >>
       \o verify_required_component_property_value(name, c0, light_type_property, "LIGHT_TYPES[2]")
       \o << SetProperty("SetLocalRotation", name, name, "LocalRotation",
                         "Vector3(DEGREE_RADIAN_FACTOR * 90.0, 0.0, 0.0)") >>
       \o take_screenshot_game_mode("AreaLight_4")
       \o << SetProperty("SetComponentProperty", name, pair, light_type_property, "LIGHT_TYPES[1]") >>
       \o verify_required_component_property_value(name, c0, light_type_property, "LIGHT_TYPES[1]")
       \o take_screenshot_game_mode("AreaLight_5")
       \o << HostCall("delete_entity", "", name,
                      <<Eff(<<name, "exists">>, "true", "false")>>, TRUE) >>)

spot_light_component_test ==
  LET name == "spot_light"
      c0 == "spot_light.components[0]"
      pair == "spot_light.light_component_id_pair"
      light_type_property == "Controller|Configuration|Light type"
  IN InTest("spot_light_component_test",
       create_entity_undo_redo_component_addition(name, "Light")
       \o << SetProperty("SetLocalRotation", name, name, "LocalRotation",
                         "Vector3(DEGREE_RADIAN_FACTOR * 300.0, 0.0, 0.0)"),
             Plain("attach_component_to_entity", name),
             SetProperty("SetComponentProperty", name, pair, light_type_property, "LIGHT_TYPES[2]") >>
       \o verify_enter_exit_game_mode(name)
       \o verify_required_component_property_value(name, c0, light_type_property, "LIGHT_TYPES[2]")
       \o << Plain("find_entity_by_name", ""),
             Plain("find_entity_by_name", ""),
             SetProperty("disable_component", "directional_light",
                         "directional_light.components[0]", "enabled", "false"),
             SetProperty("disable_component", "global_skylight",
                         "global_skylight.components[0]", "enabled", "false"),
             SetProperty("disable_component", "global_skylight",
                         "global_skylight.components[1]", "enabled", "false") >>
       \o take_screenshot_game_mode("SpotLight_1")
       \o << Plain("get_asset_by_path", ""),
             Plain("find_entity_by_name", ""),
             SetProperty("get_set_test", "ground_plane", "ground_plane.components[0]",
                         "Default Material|Material Asset",
                         "Materials/Presets/MacBeth/22_neutral_5-0_0-70d.azmaterial") >>
       \o take_screenshot_game_mode("SpotLight_2")
       \o << SetProperty("get_set_test", name, c0, "Controller|Configuration|Intensity", "800.0") >>
       \o take_screenshot_game_mode("SpotLight_3")
       \o << SetProperty("get_set_test", name, c0, "Controller|Configuration|Color",
                         "Color(47.0 / 255.0, 75.0 / 255.0, 37.0 / 255.0, 255.0 / 255.0)") >>
       \o take_screenshot_game_mode("SpotLight_4"))

\* grid_component_test restoring every default but the Secondary Color.
grid_component_test_leaving_secondary_color ==
  LET grid == "default_level.Grid"
      Set(path, value) ==
        SetProperty("set_component_property", "default_level", grid, path, value)
  IN InTest("grid_component_test",
       << Plain("SearchEntities", ""),
          Plain("FindComponentTypeIdsByEntityType", ""),
          Plain("GetComponentOfType", "default_level"),
          Set("Controller|Configuration|Grid Size", "64.0") >>
       \o take_screenshot_game_mode("Grid_1")
       \o << Set("Controller|Configuration|Axis Color",
                  "Color(13.0 / 255.0, 255.0 / 255.0, 0.0 / 255.0, 255.0 / 255.0)") >>
       \o take_screenshot_game_mode("Grid_2")
       \o << Set("Controller|Configuration|Primary Grid Spacing", "0.5") >>
       \o take_screenshot_game_mode("Grid_3")
       \o << Set("Controller|Configuration|Primary Color", "Color(129.0 / 255.0, 96.0 / 255.0, 0.0 / 255.0, 255.0 / 255.0)") >>
       \o take_screenshot_game_mode("Grid_4")
       \o << Set("Controller|Configuration|Secondary Grid Spacing", "0.75") >>
       \o take_screenshot_game_mode("Grid_5")
       \o << Set("Controller|Configuration|Secondary Color", "Color(0.0 / 255.0, 35.0 / 255.0, 161.0 / 255.0, 255.0 / 255.0)") >>
       \o take_screenshot_game_mode("Grid_6")
       \o << Set("Controller|Configuration|Grid Size", "32.0"),
             Set("Controller|Configuration|Axis Color", "Color(0.0 / 255.0, 0.0 / 255.0, 255.0 / 255.0, 255.0 / 255.0)"),
             Set("Controller|Configuration|Primary Grid Spacing", "1.0"),
             Set("Controller|Configuration|Primary Color", "Color(64.0 / 255.0, 64.0 / 255.0, 64.0 / 255.0, 255.0 / 255.0)"),
             Set("Controller|Configuration|Secondary Grid Spacing", "1.0") >>)

grid_component_test ==
  LET grid == "default_level.Grid"
      Set(path, value) ==
        SetProperty("set_component_property", "default_level", grid, path, value)
  IN InTest("grid_component_test",
       << Plain("SearchEntities", ""),
          Plain("FindComponentTypeIdsByEntityType", ""),
          Plain("GetComponentOfType", "default_level"),
          Set("Controller|Configuration|Grid Size", "64.0") >>
       \o take_screenshot_game_mode("Grid_1")
       \o << Set("Controller|Configuration|Axis Color",
                  "Color(13.0 / 255.0, 255.0 / 255.0, 0.0 / 255.0, 255.0 / 255.0)") >>
       \o take_screenshot_game_mode("Grid_2")
       \o << Set("Controller|Configuration|Primary Grid Spacing", "0.5") >>
       \o take_screenshot_game_mode("Grid_3")
       \o << Set("Controller|Configuration|Primary Color", "Color(129.0 / 255.0, 96.0 / 255.0, 0.0 / 255.0, 255.0 / 255.0)") >>
       \o take_screenshot_game_mode("Grid_4")
       \o << Set("Controller|Configuration|Secondary Grid Spacing", "0.75") >>
       \o take_screenshot_game_mode("Grid_5")
       \o << Set("Controller|Configuration|Secondary Color", "Color(0.0 / 255.0, 35.0 / 255.0, 161.0 / 255.0, 255.0 / 255.0)") >>
       \o take_screenshot_game_mode("Grid_6")
       \o << Set("Controller|Configuration|Grid Size", "32.0"),
             Set("Controller|Configuration|Axis Color", "Color(0.0 / 255.0, 0.0 / 255.0, 255.0 / 255.0, 255.0 / 255.0)"),
             Set("Controller|Configuration|Primary Grid Spacing", "1.0"),
             Set("Controller|Configuration|Primary Color", "Color(64.0 / 255.0, 64.0 / 255.0, 64.0 / 255.0, 255.0 / 255.0)"),
             Set("Controller|Configuration|Secondary Grid Spacing", "1.0"),
             Set("Controller|Configuration|Secondary Color", "Color(128.0 / 255.0, 128.0 / 255.0, 128.0 / 255.0, 255.0 / 255.0)") >>)

\* helper.init_idle, hydra.create_basic_atom_level, hydra.level_load_save and
\* hydra.initial_viewport_setup: the level and its entities exist afterwards.
LevelSetup ==
  << Plain("init_idle", ""),
     HostCall("create_basic_atom_level", "", "",
              [i \in 1..Len(LevelEntities) |->
                 Eff(<<LevelEntities[i], "exists">>, "false", "true")], FALSE),
     Plain("level_load_save", ""),
     Plain("initial_viewport_setup", "") >>

CompletedLine == "Component tests completed"

\* run() calling grid_component_test before spot_light_component_test.
run_AllComponentsIndepthTests_grid_before_spot_light ==
  InTest("setup", LevelSetup)
  \o area_light_component_test
  \o grid_component_test
  \o spot_light_component_test
  \o InTest("end", << LogText(CompletedLine) >>)

run_AllComponentsIndepthTests ==
  InTest("setup", LevelSetup)
  \o area_light_component_test
  \o spot_light_component_test
  \o grid_component_test
  \o InTest("end", << LogText(CompletedLine) >>)

\* The calls of the component test in the order its expected lines record
\* them: addition undo/redo, game mode, required components, hide/unhide,
\* deletion undo/redo.
component_test(entity_name, component, components_to_add) ==
  InTest(entity_name,
    create_entity_undo_redo_component_addition(entity_name, component)
    \o verify_enter_exit_game_mode(entity_name)
    \o verify_required_component_addition(entity_name, entity_name, components_to_add)
    \o verify_hide_unhide_entity(entity_name, entity_name)
    \o verify_deletion_undo_redo(entity_name, entity_name))

run_ComponentTest == component_test("Area Light", "Area Light", <<"Capsule Shape">>)

\* --------------------------------------------- ModelHotReloading_test_case
ModelReadyKey == <<"modelReloadHelper", "isModelReady">>
DstDirKey == <<"filesystem", "Objects/ModelHotReload">>

\* copy_file(srcPath, dstPath): sets ret; an exception of os.makedirs leaves it.
copy_file(chk, srcPath) == [Ins("copy") EXCEPT !.api = "copy_file", !.chk = chk, !.text = srcPath]

\* if [not] <the value fn returned>: ... -- when the value reads as val, the
\* next skip statements are skipped.
Branch(fn, val, skip) == [Ins("branch") EXCEPT !.api = fn, !.val = val, !.skip = skip]

\* return val, leaving the function: its last skip statements are skipped.
Return(val, skip) == [Ins("return") EXCEPT !.val = val, !.skip = skip]

\* copy_file_and_wait_for_on_model_ready copying and waiting a second time
\* when OnModelReady did not arrive.
copy_file_and_wait_for_on_model_ready_retrying(chk, entityId, sourceFile) ==
  << [Ins("reset") EXCEPT !.api = "NotificationHandler.connect", !.idref = entityId,
                          !.eff = <<Eff(ModelReadyKey, "", "false")>>],
     copy_file(chk, sourceFile),
     Branch("copy_file", "False", 7),
     wait_for_condition(chk, ModelReadyKey, "true", 40, ""),
     Branch("wait_for_condition", "False", 1),
     Return("True", 5),
     copy_file(chk, sourceFile),
     wait_for_condition(chk, ModelReadyKey, "true", 40, ""),
     Branch("wait_for_condition", "False", 1),
     Return("True", 1),
     Return("False", 0) >>

\* ModelReloadHelper.copy_file_and_wait_for_on_model_ready(entityId, sourceFile)
\* copy_file_and_wait_for_on_model_ready reporting success when the poll for
\* OnModelReady timed out.
copy_file_and_wait_for_on_model_ready_ignoring_timeout(chk, entityId, sourceFile) ==
  << [Ins("reset") EXCEPT !.api = "NotificationHandler.connect", !.idref = entityId,
                          !.eff = <<Eff(ModelReadyKey, "", "false")>>],
     copy_file(chk, sourceFile),
     Branch("copy_file", "False", 4),
     wait_for_condition(chk, ModelReadyKey, "true", 40, ""),
     Branch("wait_for_condition", "False", 1),
     Return("True", 2),
     Return("True", 1),
     Return("False", 0) >>

copy_file_and_wait_for_on_model_ready(chk, entityId, sourceFile) ==
  << [Ins("reset") EXCEPT !.api = "NotificationHandler.connect", !.idref = entityId,
                          !.eff = <<Eff(ModelReadyKey, "", "false")>>],
     copy_file(chk, sourceFile),
     Branch("copy_file", "False", 4),
     wait_for_condition(chk, ModelReadyKey, "true", 40, ""),
     Branch("wait_for_condition", "False", 1),
     Return("True", 2),
     Return("False", 1),
     Return("False", 0) >>

\* if not modelReloadHelper.copy_file_and_wait_for_on_model_ready(...): general.log(...)
Reload(chk, entityId, sourceFile, shortName) ==
  copy_file_and_wait_for_on_model_ready(chk, entityId, sourceFile)
  \o << Branch("copy_file_and_wait_for_on_model_ready", "True", 1),
        LogText("OnModelReady never happened - " \o shortName) >>

\* 18446744073709551615, the lod index of the model material overrides; every
\* use of it is as a dictionary key, and the model writes it as -1.
modelMaterialOverrideLod == -1

LodString(lod) ==
  IF lod = modelMaterialOverrideLod THEN "18446744073709551615" ELSE ToString(lod)

Expect(lod, labels) == [lod |-> lod, labels |-> labels]

validate_call(chk, entityId, materialLabelDict) ==
  [Ins("validate") EXCEPT !.api = "validate_material_slot_labels", !.chk = chk,
                          !.idref = entityId, !.arg = materialLabelDict]

\* validate_material_slot_labels(...) with run() logging when it returns False.
validate_statement_branching(chk, entityId, materialLabelDict) ==
  << validate_call(chk, entityId, materialLabelDict),
     Branch("validate_material_slot_labels", "True", 1),
     LogText("Material slot labels do not match") >>

\* validate_material_slot_labels(myEntityId, materialLabelDict) as run() writes
\* it: an expression statement.
validate_statement(chk, entityId, materialLabelDict) ==
  << validate_call(chk, entityId, materialLabelDict) >>

run_ModelHotReloading ==
  LET id == "myEntityId"
      lodMaterialList == <<"StingrayPBS1", "Red_Xaxis", "Green_Yaxis", "Blue_Zaxis", "With_Texture">>
  IN << Plain("init_idle", ""),
        HostCall("open_level", "", "", <<Eff(<<"Camera", "exists">>, "false", "true")>>, FALSE),
        HostCall("CreateNewEntity", "CreateNewEntity", "",
                 <<Eff(<<id, "exists">>, "false", "true")>>, FALSE),
        Plain("SetWorldTranslation", id),
        [Ins("sayif") EXCEPT !.idref = id, !.key = <<id, "exists">>, !.val = "true",
                             !.text = "Entity successfully created."],
        Plain("attach_component_to_entity", id),
        Plain("attach_component_to_entity", id),
        Plain("SearchEntities", ""),
        Plain("SetWorldTM", "Camera"),
        Plain("SetViewAndMovementLockFromEntityPerspective", "Camera"),
        Plain("GetAssetIdByPath", ""),
        SetProperty("SetComponentProperty", id, "myEntityId.materialComponent",
                    "Default Material|Material Asset",
                    "testdata/objects/modelhotreload/displayvertexcolor.azmaterial"),
        SetProperty("SetComponentProperty", id, "myEntityId.meshComponent",
                    "Controller|Configuration|Mesh Asset",
                    "{66ADF6FF-3CA4-51F6-9681-5697D4A29F56}:10241ecb") >>
     \o Reload("reload 1", id, "Objects/ModelHotReload/vertexcolor.fbx", "vertexcolor.fbx")
     \o << capture_screenshot_blocking_in_game_mode("screenshot_atom_ModelHotReload_VertexColor.ppm") >>
     \o Reload("reload 2", id, "Objects/ModelHotReload/novertexcolor.fbx", "novertexcolor.fbx")
     \o << capture_screenshot_blocking_in_game_mode("screenshot_atom_ModelHotReload_NoVertexColor.ppm") >>
     \o Reload("reload 3", id, "Multi-mat_fbx/multi-mat_mesh-groups_1m_cubes.fbx",
               "multi-mat_mesh-groups_1m_cubes.fbx")
     \o validate_statement("validate 1", id,
          << Expect(modelMaterialOverrideLod, lodMaterialList), Expect(0, lodMaterialList) >>)
     \o Reload("reload 4", id, "Objects/ModelHotReload/sphere_5lods.fbx", "sphere_5lods.fbx")
     \o validate_statement("validate 2", id,
          << Expect(modelMaterialOverrideLod,
                    <<"lambert0", "lambert3", "lambert4", "lambert5", "lambert6">>),
             Expect(0, <<"lambert0">>), Expect(1, <<"lambert3">>), Expect(2, <<"lambert4">>),
             Expect(3, <<"lambert5">>), Expect(4, <<"lambert6">>) >>)
     \o Reload("reload 5", id, "Objects/ModelHotReload/vertexcolor.fbx", "vertexcolor.fbx")
     \o validate_statement("validate 3", id,
          << Expect(modelMaterialOverrideLod, <<"Material">>), Expect(0, <<"Material">>) >>)
     \o << [Ins("close") EXCEPT !.api = "close_editor"] >>

\* One entry of the map GetOriginalMaterialAssignments returns, with the label
\* GetMaterialSlotLabel gives for it.
Assignment(lod, label, isDefault) == [lod |-> lod, label |-> label, default |-> isDefault]

Lods(materialLabelDict) == {materialLabelDict[i].lod : i \in DOMAIN materialLabelDict}
Labels(materialLabelDict, lod) ==
  UNION {Range(materialLabelDict[i].labels) :
           i \in {j \in DOMAIN materialLabelDict : materialLabelDict[j].lod = lod}}

Unbound == [bound |-> FALSE, lod |-> 0, label |-> ""]

\* The first loop of validate_material_slot_labels from entry i on: found is
\* foundLabels, last what assignmentId and slotLabel are bound to.
RECURSIVE MarkFound(_, _, _, _, _, _)
MarkFound(materialAssignmentMap, materialLabelDict, i, found, assignmentId, slotLabel) ==
  IF i > Len(materialAssignmentMap)
  THEN [returned |-> FALSE, lines |-> <<>>, found |-> found,
        assignmentId |-> assignmentId, slotLabel |-> slotLabel]
  ELSE LET a == materialAssignmentMap[i]
           id == [bound |-> TRUE, lod |-> a.lod, label |-> ""]
       IN IF a.default
          THEN MarkFound(materialAssignmentMap, materialLabelDict, i + 1, found, id, slotLabel)
          ELSE IF a.lod \notin Lods(materialLabelDict)
          THEN [returned |-> TRUE,
                lines |-> << "There is an unexpected lod in the material map",
                             "  lod: " \o LodString(a.lod) >>,
                found |-> found, assignmentId |-> id, slotLabel |-> slotLabel]
          ELSE IF a.label \notin Labels(materialLabelDict, a.lod)
          THEN [returned |-> TRUE,
                lines |-> << "There is an unexpected material slot in the lod",
                             "  lod: " \o LodString(a.lod) \o " slot label: " \o a.label >>,
                found |-> found, assignmentId |-> id, slotLabel |-> slotLabel]
          ELSE MarkFound(materialAssignmentMap, materialLabelDict, i + 1,
                         found \cup {<<a.lod, a.label>>}, id,
                         [bound |-> TRUE, lod |-> a.lod, label |-> a.label])

\* The (lod, label) pairs of foundLabels in the order the second loop visits them.
RECURSIVE ExpectedPairs(_)
ExpectedPairs(materialLabelDict) ==
  IF materialLabelDict = <<>> THEN <<>>
  ELSE LET e == materialLabelDict[1]
       IN [j \in 1..Len(e.labels) |-> <<e.lod, e.labels[j]>>]
          \o ExpectedPairs(SubSeq(materialLabelDict, 2, Len(materialLabelDict)))

\* validate_material_slot_labels without its second loop: nothing checks that
\* every expected label was found.
validate_material_slot_labels_first_loop_only(materialAssignmentMap, materialLabelDict) ==
  LET first == MarkFound(materialAssignmentMap, materialLabelDict, 1, {}, Unbound, Unbound)
  IN IF first.returned THEN [ret |-> "False", lines |-> first.lines]
     ELSE [ret |-> "True", lines |-> <<>>]

\* validate_material_slot_labels(entityId, materialLabelDict) on the map the
\* host returned: the lines it logs and how it ends ("True", "False", or
\* "raise": line 241 reads assignmentId or slotLabel while it is unbound).
validate_material_slot_labels(materialAssignmentMap, materialLabelDict) ==
  LET first == MarkFound(materialAssignmentMap, materialLabelDict, 1, {}, Unbound, Unbound)
      pairs == ExpectedPairs(materialLabelDict)
      missing == {j \in DOMAIN pairs : pairs[j] \notin first.found}
  IN IF first.returned THEN [ret |-> "False", lines |-> first.lines]
     ELSE IF missing = {} THEN [ret |-> "True", lines |-> <<>>]
     ELSE IF first.assignmentId.bound /\ first.slotLabel.bound
     THEN [ret |-> "False",
           lines |-> << "There was an expected material slot/lod combination that was not found",
                        "  lod: " \o LodString(first.assignmentId.lod)
                          \o " slot label: " \o first.slotLabel.label >>]
     ELSE [ret |-> "raise",
           lines |-> << "There was an expected material slot/lod combination that was not found" >>]

\* Maps the editor may return for a model whose slots are materialLabelDict:
\* the one the dictionary expects, and what a failed or wrong reload leaves.
DefaultAssignment == Assignment(0, "", TRUE)
MatchingMap(materialLabelDict) ==
  LET pairs == ExpectedPairs(materialLabelDict)
  IN <<DefaultAssignment>> \o [j \in DOMAIN pairs |-> Assignment(pairs[j][1], pairs[j][2], FALSE)]
WrongMaps(materialLabelDict) ==
  LET ok == MatchingMap(materialLabelDict)
  IN { <<>>,
       <<DefaultAssignment>>,
       SubSeq(ok, 1, Len(ok) - 1),
       ok \o <<Assignment(7, "Material", FALSE)>>,
       <<DefaultAssignment, Assignment(0, "lambert1", FALSE)>> }

\* validate_material_slot_labels called on its own, on arguments of any shape:
\* the dictionaries it is given, the entries a material assignment map can
\* hold for one of them (a lod and a label the dictionary has or has not,
\* default assignments of an expected and of an unexpected lod), and maps of
\* up to MaxAssignments entries.
MaxAssignments == 3
SlotLabelDicts ==
  { << Expect(modelMaterialOverrideLod, <<"Material">>), Expect(0, <<"Material">>) >>,
    << Expect(0, <<"lambert0">>), Expect(1, <<"lambert3">>) >> }
AssignmentsOf(materialLabelDict) ==
  {Assignment(lod, label, FALSE) :
     lod \in Lods(materialLabelDict) \cup {7},
     label \in UNION {Labels(materialLabelDict, l) : l \in Lods(materialLabelDict)}
                \cup {"lambert0"}}
  \cup {Assignment(lod, "", TRUE) : lod \in {0, 7}}
Inputs ==
  UNION {{[dict |-> d, map |-> m] :
            m \in UNION {[1..n -> AssignmentsOf(d)] : n \in 0..MaxAssignments}} :
           d \in SlotLabelDicts}
NoInput == [dict |-> <<>>, map |-> <<>>]

\* ------------------------------------------- AllComponentsBasicTests_test
LevelDir == "<dev>/AtomTest/Levels/tmp_level"

\* file_system.delete([LevelDir], True, True)
file_system_delete(path) == [Ins("fsdelete") EXCEPT !.api = "file_system.delete", !.text = path]

\* def teardown(): the finalizer's body
teardown == << file_system_delete(LevelDir) >>

\* setup_teardown deleting the directory in its own body only.
setup_teardown_without_finalizer ==
  << file_system_delete(LevelDir) >>

\* TestAllComponentsBasicTests.setup_teardown, up to where pytest takes over
setup_teardown ==
  << file_system_delete(LevelDir),
     [Ins("addfinalizer") EXCEPT !.api = "request.addfinalizer", !.arg = teardown] >>

\* How many of the expected lines the model carries.
ExpectedModelled == 2
\* How long a transcript the harness is given.
MaxTranscript == 3

expected_lines ==
  SubSeq(<< "Area Light Entity successfully created",
            "Area Light_test: Component added to the entity: True",
            "Area Light_test: Component removed after UNDO: True",
            "Area Light_test: Component added after REDO: True" >>, 1, ExpectedModelled)

unexpected_lines == << "Assert", "Traceback (most recent call last):" >>

\* halt_on_unexpected left at False: the harness reads the log to its end.
halt_on_unexpected_off == FALSE

halt_on_unexpected == TRUE

\* hydra.launch_and_validate_results(..., expected_lines, unexpected_lines,
\* halt_on_unexpected)
test_AllComponentsTest ==
  << [Ins("launch") EXCEPT !.api = "launch_and_validate_results",
                           !.arg = <<expected_lines, unexpected_lines>>,
                           !.val = IF halt_on_unexpected THEN "True" ELSE "False"] >>

run_pytest == setup_teardown \o test_AllComponentsTest

\* A transcript line is the set of the literal strings that occur in it.
TranscriptLines ==
  {{e} : e \in Range(expected_lines)} \cup {{u} : u \in Range(unexpected_lines)} \cup {{}}
Transcripts == UNION {[1..n -> TranscriptLines] : n \in 0..MaxTranscript}

\* -------------------------------------- C34389076_ActorComponent_test_case
\* The asset id GetAssetIdByPath gives for 'BURT/burtactor.actor': a uuid and
\* a sub id.
actor_asset_id == [guid |-> "uuid of BURT/burtactor.actor", subId |-> "0"]

\* AssetId.to_string(): "{<uuid>}:<sub id>"
to_string(assetId) == "{" \o assetId.guid \o "}:" \o assetId.subId

\* The string form of the value GetComponentProperty reads for 'Actor asset',
\* and whether GetAssetPathById gave a path.
ActorAssetKey == <<"myEntityId.actor_component", "Actor asset">>
ActorAssetPathKey == <<"actor_asset_path", "not None">>

CorrectlySetLine == "Actor asset property of actor is correctly set"

\* run() logging that the property is correctly set without reading it back.
run_ActorComponent_logging_unconditionally ==
  LET id == "myEntityId"
  IN << Plain("init_idle", ""),
       HostCall("open_level", "", "", <<Eff(<<"Camera", "exists">>, "false", "true")>>, FALSE),
       HostCall("CreateNewEntity", "CreateNewEntity", "",
                <<Eff(<<id, "exists">>, "false", "true")>>, FALSE),
       Plain("SetName", id),
       Plain("SetWorldTranslation", id),
       [Ins("sayif") EXCEPT !.idref = id, !.key = <<id, "exists">>, !.val = "true",
                            !.text = "Entity successfully created."],
       Plain("attach_component_to_entity", id),
       Plain("GetAssetIdByPath", ""),
       HostCall("GetAssetPathById", "GetAssetPathById", "",
                <<Eff(ActorAssetPathKey, "false", "true")>>, FALSE),
       [Ins("sayif") EXCEPT !.key = ActorAssetPathKey, !.val = "true",
                            !.text = "Actor asset for actor component is valid."],
       HostCall("SetComponentProperty", "Actor asset", id,
                <<Eff(ActorAssetKey, "", to_string(actor_asset_id))>>, FALSE),
       LogText(CorrectlySetLine),
       Plain("SearchEntities", ""),
       Plain("SetWorldTranslation", "Camera"),
       Plain("RotateAroundLocalZ", "Camera"),
       capture_screenshot_blocking_in_game_mode("screenshot_atom_ActorComponent.ppm"),
       [Ins("close") EXCEPT !.api = "close_editor"] >>

\* run() of the Actor script
run_ActorComponent ==
  LET id == "myEntityId"
  IN << Plain("init_idle", ""),
       HostCall("open_level", "", "", <<Eff(<<"Camera", "exists">>, "false", "true")>>, FALSE),
       HostCall("CreateNewEntity", "CreateNewEntity", "",
                <<Eff(<<id, "exists">>, "false", "true")>>, FALSE),
       Plain("SetName", id),
       Plain("SetWorldTranslation", id),
       [Ins("sayif") EXCEPT !.idref = id, !.key = <<id, "exists">>, !.val = "true",
                            !.text = "Entity successfully created."],
       Plain("attach_component_to_entity", id),
       Plain("GetAssetIdByPath", ""),
       HostCall("GetAssetPathById", "GetAssetPathById", "",
                <<Eff(ActorAssetPathKey, "false", "true")>>, FALSE),
       [Ins("sayif") EXCEPT !.key = ActorAssetPathKey, !.val = "true",
                            !.text = "Actor asset for actor component is valid."],
       HostCall("SetComponentProperty", "Actor asset", id,
                <<Eff(ActorAssetKey, "", to_string(actor_asset_id))>>, FALSE),
       [Ins("sayif") EXCEPT !.idref = id, !.key = ActorAssetKey,
                            !.val = to_string(actor_asset_id), !.text = CorrectlySetLine],
       Plain("SearchEntities", ""),
       Plain("SetWorldTranslation", "Camera"),
       Plain("RotateAroundLocalZ", "Camera"),
       capture_screenshot_blocking_in_game_mode("screenshot_atom_ActorComponent.ppm"),
       [Ins("close") EXCEPT !.api = "close_editor"] >>

\* ----------------------------------------------------------------- state
Scripts ==
  {"AllComponentsIndepthTests", "ComponentTest", "ModelHotReloading", "pytest",
   "C34389076_ActorComponent"}
\* Functions of the scripts run on their own, on inputs of Inputs.
Units == {"validate_material_slot_labels"}

Program(s) ==
  CASE s = "AllComponentsIndepthTests" -> run_AllComponentsIndepthTests
    [] s = "ComponentTest" -> run_ComponentTest
    [] s = "ModelHotReloading" -> run_ModelHotReloading
    [] s = "pytest" -> run_pytest
    [] s = "C34389076_ActorComponent" -> run_ActorComponent

EffectKeys(p) == UNION {{p[i].eff[j].key : j \in DOMAIN p[i].eff} : i \in DOMAIN p}
HostKeys ==
  (UNION {EffectKeys(Program(s)) \cup {Program(s)[i].key : i \in DOMAIN Program(s)} :
            s \in Scripts}
   \cup {DstDirKey}) \ {NoKey}
Entities ==
  (UNION {{Program(s)[i].idref : i \in DOMAIN Program(s)} : s \in Scripts}
   \cup {k[1] : k \in {x \in HostKeys : x[2] = "exists"}}) \ {""}

VARIABLES
  script,     \* the script the editor (or pytest) was started with
  pc,         \* index of the statement to execute next
  status,     \* "running", "done", or "aborted" (an exception left run())
  ret,        \* the value the last call returned
  waited,     \* ticks spent in the idle_wait or wait_for_condition at pc
  elapsed,    \* ticks the step in progress has spent since its mutation
  polling,    \* a wait_for_condition call is in progress
  poll,       \* the last wait_for_condition call: check, first result, timeout, outcome
  prevPoll,   \* the wait_for_condition call before it
  host,       \* the editor's state, as far as the scripts observe it
  pending,    \* effects the host accepted and has not applied
  faults,     \* how many requests the host has deferred or failed
  undoStack,  \* the host's command stack, as the script's calls build it
  redoStack,
  lifetime,   \* per entity: "none", "live", "deleted", by the script's calls
  log,        \* general.log lines, in order
  shots,      \* screenshots captured, in order
  closed,     \* helper.close_editor() was called
  counts,     \* how often each check issued a mutation / a poll / a copy
  idcalls,    \* (entity, lifetime) of every call that was given an entity id
  order,      \* the tests whose statements ran, in order of first statement
  report,     \* set by a log statement: what its step consumed
  flow,       \* for every value a call returned to the script: where control went
              \* next, and where it would have gone had the value been the other one
  transcript, \* the editor log the harness is given
  input,      \* the arguments of the function run on its own, if one is
  scan,       \* the harness's position in it, what it found, its verdict
  fixture     \* pytest: finalizers registered, deletions done, the body's outcome

fixed == <<script, transcript, input>>
pollVars == <<polling, poll, prevPoll>>
hostVars == <<host, pending, faults>>
stackVars == <<undoStack, redoStack>>
outVars == <<log, shots, closed>>
pytestVars == <<scan, fixture>>

vars ==
  <<script, pc, status, ret, waited, elapsed, polling, poll, prevPoll, host, pending,
    faults, undoStack, redoStack, lifetime, log, shots, closed, counts, idcalls,
    order, report, flow, transcript, input, scan, fixture>>

\* validate_material_slot_labels(entityId, materialLabelDict), alone
run_validate_material_slot_labels == << validate_call("validate", "", input.dict) >>

Prog == IF script \in Units THEN run_validate_material_slot_labels ELSE Program(script)
cur == Prog[pc]
Running == status = "running" /\ pc <= Len(Prog)
At(op) == Running /\ cur.op = op

Ticks(t) == t * TicksPerHalfSecond
B(b) == IF b THEN "True" ELSE "False"
NoPoll == [chk |-> "", first |-> FALSE, t |-> 0, result |-> ""]
NoReport ==
  [chk |-> "", polled |-> FALSE, first |-> FALSE, result |-> "", ticks |-> 0,
   timeout |-> 0, val |-> ""]
Line(chk, text, val) == [chk |-> chk, text |-> text, val |-> val]

Init ==
  /\ script \in Scripts \cup Units
  /\ input \in IF script \in Units THEN Inputs ELSE {NoInput}
  /\ transcript \in IF script = "pytest" THEN Transcripts ELSE {<<>>}
  /\ pc = 1
  /\ status = "running"
  /\ ret = TRUE
  /\ waited = 0
  /\ elapsed = 0
  /\ polling = FALSE
  /\ poll = NoPoll
  /\ prevPoll = NoPoll
  /\ host = [k \in HostKeys |->
               IF k = GameKey \/ k[2] \in {"exists", "hidden", "enabled", "has Light",
                                          "has Area Light"}
               THEN "false" ELSE ""]
  /\ pending = {}
  /\ faults = 0
  /\ undoStack = <<>>
  /\ redoStack = <<>>
  /\ lifetime = [e \in Entities |-> "none"]
  /\ log = <<>>
  /\ shots = <<>>
  /\ closed = FALSE
  /\ counts = <<>>
  /\ idcalls = {}
  /\ order = <<>>
  /\ report = NoReport
  /\ flow = {}
  /\ scan = [pos |-> 0, found |-> {}, seen |-> FALSE, verdict |-> "", haltedAt |-> 0]
  /\ fixture = [finalizers |-> <<>>, deletes |-> <<>>, body |-> "notrun"]

\* ------------------------------------------------------------ bookkeeping
Bump(c, k) == IF k \in DOMAIN c THEN [c EXCEPT ![k] = @ + 1] ELSE c @@ (k :> 1)
Count(k) == IF k \in DOMAIN counts THEN counts[k] ELSE 0

\* The statement at pc starts executing: what it is given and which test it
\* belongs to are recorded.
Enter(i) ==
  /\ idcalls' = IF i.idref # "" THEN idcalls \cup {<<i.idref, lifetime[i.idref]>>}
                ELSE idcalls
  /\ order' = IF i.test # "" /\ (order = <<>> \/ order[Len(order)] # i.test)
              THEN Append(order, i.test) ELSE order

\* The host's store after the effects effs.
Apply(h, effs) ==
  [k \in DOMAIN h |->
     IF \E j \in DOMAIN effs : effs[j].key = k
     THEN effs[CHOOSE j \in DOMAIN effs :
                 effs[j].key = k /\ \A l \in DOMAIN effs : effs[l].key = k => l <= j].new
     ELSE h[k]]

\* What the script's requests make of an entity: created, deleted, restored.
Lives(l, effs) ==
  [e \in DOMAIN l |->
     IF \E j \in DOMAIN effs : effs[j].key = <<e, "exists">>
     THEN IF effs[CHOOSE j \in DOMAIN effs : effs[j].key = <<e, "exists">>].new = "true"
          THEN "live" ELSE "deleted"
     ELSE l[e]]

\* The host takes a request: it applies the effects at once, or (a fault, for
\* requests whose effect a check polls) accepts them and applies them later.
Request(chk, effs) ==
  \/ /\ host' = Apply(host, effs)
     /\ UNCHANGED <<pending, faults>>
  \/ /\ chk # "" /\ effs # <<>> /\ faults < MaxFaults
     /\ pending' = pending \cup {[key |-> effs[j].key, val |-> effs[j].new] : j \in DOMAIN effs}
     /\ faults' = faults + 1
     /\ UNCHANGED host

\* One idle tick of the editor: it may apply one effect it had deferred.
HostTick ==
  \/ UNCHANGED <<host, pending>>
  \/ \E a \in pending :
       /\ host' = [host EXCEPT ![a.key] = a.val]
       /\ pending' = pending \ {a}

Mutated(chk, kind) ==
  /\ elapsed' = 0
  /\ counts' = IF chk # "" THEN Bump(counts, <<chk, kind>>) ELSE counts

\* ---------------------------------------------------------------- actions
Call ==
  /\ At("call")
  /\ Enter(cur)
  /\ Request(cur.chk, cur.eff)
  /\ Mutated(cur.chk, "call")
  /\ lifetime' = Lives(lifetime, cur.eff)
  /\ IF cur.undoable /\ cur.eff # <<>>
     THEN undoStack' = undoStack \o cur.eff /\ redoStack' = <<>>
     ELSE UNCHANGED stackVars
  /\ pc' = pc + 1
  /\ report' = NoReport
  /\ UNCHANGED <<fixed, status, ret, waited, pollVars, outVars, flow, pytestVars>>

Undo ==
  /\ At("undo")
  /\ Enter(cur)
  /\ Mutated(cur.chk, "call")
  /\ IF undoStack = <<>>
     THEN UNCHANGED <<hostVars, stackVars, lifetime>>
     ELSE LET c == undoStack[Len(undoStack)]
              back == <<Eff(c.key, c.new, c.old)>>
          IN /\ Request(cur.chk, back)
             /\ lifetime' = Lives(lifetime, back)
             /\ undoStack' = SubSeq(undoStack, 1, Len(undoStack) - 1)
             /\ redoStack' = Append(redoStack, c)
  /\ pc' = pc + 1
  /\ report' = NoReport
  /\ UNCHANGED <<fixed, status, ret, waited, pollVars, outVars, flow, pytestVars>>

Redo ==
  /\ At("redo")
  /\ Enter(cur)
  /\ Mutated(cur.chk, "call")
  /\ IF redoStack = <<>>
     THEN UNCHANGED <<hostVars, stackVars, lifetime>>
     ELSE LET c == redoStack[Len(redoStack)]
          IN /\ Request(cur.chk, <<c>>)
             /\ lifetime' = Lives(lifetime, <<c>>)
             /\ redoStack' = SubSeq(redoStack, 1, Len(redoStack) - 1)
             /\ undoStack' = Append(undoStack, c)
  /\ pc' = pc + 1
  /\ report' = NoReport
  /\ UNCHANGED <<fixed, status, ret, waited, pollVars, outVars, flow, pytestVars>>

\* general.idle_wait(seconds): the editor runs for the given time.
IdleTick ==
  /\ At("idle")
  /\ waited < Ticks(cur.t)
  /\ HostTick
  /\ waited' = waited + 1
  /\ elapsed' = elapsed + 1
  /\ report' = NoReport
  /\ UNCHANGED <<fixed, pc, status, ret, pollVars, faults, stackVars, lifetime, outVars,
                 counts, idcalls, order, flow, pytestVars>>

IdleDone ==
  /\ At("idle")
  /\ waited >= Ticks(cur.t)
  /\ waited' = 0
  /\ pc' = pc + 1
  /\ report' = NoReport
  /\ UNCHANGED <<fixed, status, ret, elapsed, pollVars, hostVars, stackVars, lifetime,
                 outVars, counts, idcalls, order, flow, pytestVars>>

\* helper.wait_for_condition(condition, timeout): poll the condition, yielding
\* to the editor between polls, until it holds (True) or the timeout has
\* passed (False).
Holds(i) == host[i.key] = i.val

WaitBegin ==
  /\ At("wait") /\ ~polling
  /\ Enter(cur)
  /\ polling' = TRUE
  /\ waited' = 0
  /\ prevPoll' = poll
  /\ poll' = [chk |-> cur.chk, first |-> Holds(cur), t |-> cur.t, result |-> "polling"]
  /\ counts' = Bump(counts, <<cur.chk, "wait">>)
  /\ report' = NoReport
  /\ UNCHANGED <<fixed, pc, status, ret, elapsed, hostVars, stackVars, lifetime, outVars,
                 flow, pytestVars>>

WaitSatisfied ==
  /\ At("wait") /\ polling
  /\ Holds(cur)
  /\ ret' = TRUE
  /\ polling' = FALSE
  /\ poll' = [poll EXCEPT !.result = "satisfied"]
  /\ waited' = 0
  /\ pc' = pc + 1
  /\ report' = NoReport
  /\ UNCHANGED <<fixed, status, elapsed, prevPoll, hostVars, stackVars, lifetime, outVars,
                 counts, idcalls, order, flow, pytestVars>>

WaitTimeout ==
  /\ At("wait") /\ polling
  /\ ~Holds(cur)
  /\ waited >= Ticks(cur.t)
  /\ ret' = FALSE
  /\ polling' = FALSE
  /\ poll' = [poll EXCEPT !.result = "timeout"]
  /\ waited' = 0
  /\ pc' = pc + 1
  /\ report' = NoReport
  /\ UNCHANGED <<fixed, status, elapsed, prevPoll, hostVars, stackVars, lifetime, outVars,
                 counts, idcalls, order, flow, pytestVars>>

WaitYield ==
  /\ At("wait") /\ polling
  /\ ~Holds(cur)
  /\ waited < Ticks(cur.t)
  /\ HostTick
  /\ waited' = waited + 1
  /\ elapsed' = elapsed + 1
  /\ report' = NoReport
  /\ UNCHANGED <<fixed, pc, status, ret, pollVars, faults, stackVars, lifetime, outVars,
                 counts, idcalls, order, flow, pytestVars>>

\* general.log(f"...{condition}"): the condition is evaluated again here.
Log ==
  /\ At("log")
  /\ Enter(cur)
  /\ log' = Append(log, Line(cur.chk, cur.prefix \o cur.text, B(Holds(cur))))
  /\ report' = [chk |-> cur.chk, polled |-> cur.chk # "" /\ poll.chk = cur.chk,
                first |-> poll.first, result |-> poll.result,
                ticks |-> elapsed, timeout |-> Ticks(poll.t), val |-> B(Holds(cur))]
  /\ pc' = pc + 1
  /\ elapsed' = 0
  /\ UNCHANGED <<fixed, status, ret, waited, pollVars, hostVars, stackVars,
                 lifetime, shots, closed, counts, flow, pytestVars>>

\* general.log("...") of a literal
LogLiteral ==
  /\ At("say")
  /\ Enter(cur)
  /\ log' = Append(log, Line("", cur.text, ""))
  /\ pc' = pc + 1
  /\ report' = NoReport
  /\ elapsed' = 0
  /\ UNCHANGED <<fixed, status, ret, waited, pollVars, hostVars, stackVars,
                 lifetime, shots, closed, counts, flow, pytestVars>>

\* if <condition>: general.log("...")
LogIf ==
  /\ At("sayif")
  /\ Enter(cur)
  /\ log' = IF Holds(cur) THEN Append(log, Line("", cur.text, "")) ELSE log
  /\ pc' = pc + 1
  /\ report' = NoReport
  /\ elapsed' = 0
  /\ UNCHANGED <<fixed, status, ret, waited, pollVars, hostVars, stackVars,
                 lifetime, shots, closed, counts, flow, pytestVars>>

LogProperty ==
  /\ At("logprop")
  /\ Enter(cur)
  /\ log' = Append(log, Line("", cur.prefix \o "Property value is " \o host[cur.key]
                                 \o " which matches " \o cur.val, ""))
  /\ pc' = pc + 1
  /\ report' = NoReport
  /\ elapsed' = 0
  /\ UNCHANGED <<fixed, status, ret, waited, pollVars, hostVars, stackVars,
                 lifetime, shots, closed, counts, flow, pytestVars>>

\* ScreenshotHelper(general.idle_wait_frames).capture_screenshot_blocking(name):
\* the capture is requested once and the editor idles until the frame is written.
Capture ==
  /\ At("capture")
  /\ Enter(cur)
  /\ shots' = Append(shots, cur.text)
  /\ HostTick
  /\ pc' = pc + 1
  /\ report' = NoReport
  /\ elapsed' = 0
  /\ UNCHANGED <<fixed, status, ret, waited, pollVars, faults, stackVars,
                 lifetime, log, closed, counts, flow, pytestVars>>

\* self.isModelReady = False, and the handler is connected
Reset ==
  /\ At("reset")
  /\ Enter(cur)
  /\ host' = Apply(host, cur.eff)
  /\ pc' = pc + 1
  /\ report' = NoReport
  /\ elapsed' = 0
  /\ UNCHANGED <<fixed, status, ret, waited, pollVars, pending, faults, stackVars,
                 lifetime, outVars, counts, flow, pytestVars>>

\* copy_file(srcPath, dstPath): the directory is made if it is missing, the
\* file copied; an exception of the copy is logged and False returned, one
\* of os.makedirs is not caught.  A copied file makes the editor reload the
\* model and call on_model_ready at some later tick.
Copy ==
  /\ At("copy")
  /\ Enter(cur)
  /\ Mutated(cur.chk, "copy")
  /\ report' = NoReport
  /\ \/ /\ host' = [host EXCEPT ![DstDirKey] = "true"]
        /\ pending' = pending \cup {[key |-> ModelReadyKey, val |-> "true"]}
        /\ ret' = TRUE
        /\ pc' = pc + 1
        /\ UNCHANGED <<faults, log, status>>
     \/ /\ faults < MaxFaults
        /\ faults' = faults + 1
        /\ host' = [host EXCEPT ![DstDirKey] = "true"]
        /\ log' = Append(log, Line(cur.chk, "ERROR: ", cur.text))
        /\ ret' = FALSE
        /\ pc' = pc + 1
        /\ UNCHANGED <<pending, status>>
     \/ /\ host[DstDirKey] # "true"
        /\ faults < MaxFaults
        /\ faults' = faults + 1
        /\ status' = "aborted"
        /\ UNCHANGED <<host, pending, log, ret, pc>>
  /\ UNCHANGED <<fixed, waited, pollVars, stackVars, lifetime, shots, closed, flow,
                 pytestVars>>

\* if / if not on the value the last call returned
BranchOnReturn ==
  /\ At("branch")
  /\ Enter(cur)
  /\ pc' = IF B(ret) = cur.val THEN pc + 1 + cur.skip ELSE pc + 1
  /\ flow' = flow \cup {[site |-> pc, fn |-> cur.api, val |-> ret, next |-> pc',
                          other |-> IF B(~ret) = cur.val THEN pc + 1 + cur.skip
                                    ELSE pc + 1]}
  /\ report' = NoReport
  /\ elapsed' = 0
  /\ UNCHANGED <<fixed, status, ret, waited, pollVars, hostVars, stackVars,
                 lifetime, outVars, counts, pytestVars>>

ReturnValue ==
  /\ At("return")
  /\ Enter(cur)
  /\ ret' = (cur.val = "True")
  /\ pc' = pc + 1 + cur.skip
  /\ report' = NoReport
  /\ elapsed' = 0
  /\ UNCHANGED <<fixed, status, waited, pollVars, hostVars, stackVars, lifetime,
                 outVars, counts, flow, pytestVars>>

\* validate_material_slot_labels(entityId, materialLabelDict), as a statement
\* of run(): the value it returns is dropped, an exception it raises ends run().
Validate ==
  /\ At("validate")
  /\ Enter(cur)
  /\ \E m \in IF script \in Units THEN {input.map}
              ELSE {MatchingMap(cur.arg)} \cup WrongMaps(cur.arg) :
       LET r == validate_material_slot_labels(m, cur.arg)
       IN /\ IF m = MatchingMap(cur.arg) THEN UNCHANGED faults
             ELSE faults < MaxFaults /\ faults' = faults + 1
          /\ log' = log \o [j \in DOMAIN r.lines |-> Line(cur.chk, r.lines[j], "")]
          /\ IF r.ret = "raise"
             THEN status' = "aborted" /\ UNCHANGED <<pc, ret, flow>>
             ELSE /\ ret' = (r.ret = "True")
                  /\ pc' = pc + 1
                  /\ flow' = flow \cup {[site |-> pc, fn |-> cur.api, val |-> ret',
                                         next |-> pc', other |-> pc + 1]}
                  /\ UNCHANGED status
  /\ report' = NoReport
  /\ elapsed' = 0
  /\ UNCHANGED <<fixed, waited, pollVars, host, pending, stackVars, lifetime,
                 shots, closed, counts, pytestVars>>

\* helper.close_editor()
Close ==
  /\ At("close")
  /\ Enter(cur)
  /\ closed' = TRUE
  /\ pc' = pc + 1
  /\ report' = NoReport
  /\ elapsed' = 0
  /\ UNCHANGED <<fixed, status, ret, waited, pollVars, hostVars, stackVars,
                 lifetime, log, shots, counts, flow, pytestVars>>

\* run() returns.
Finish ==
  /\ script # "pytest"
  /\ status = "running"
  /\ pc > Len(Prog)
  /\ status' = "done"
  /\ report' = NoReport
  /\ elapsed' = 0
  /\ UNCHANGED <<fixed, pc, ret, waited, pollVars, hostVars, stackVars, lifetime,
                 outVars, counts, idcalls, order, flow, pytestVars>>

\* ------------------------------------------------------------------ pytest
Deleted(path, phase) == [path |-> path, phase |-> phase, body |-> fixture.body]

\* file_system.delete([...], True, True) in the fixture's own body
FsDelete ==
  /\ At("fsdelete")
  /\ fixture' = [fixture EXCEPT !.deletes = Append(@, Deleted(cur.text, "setup"))]
  /\ pc' = pc + 1
  /\ elapsed' = 0
  /\ UNCHANGED <<fixed, status, ret, waited, pollVars, hostVars, stackVars,
                 lifetime, outVars, counts, idcalls, order, report, flow, scan>>

\* request.addfinalizer(teardown)
AddFinalizer ==
  /\ At("addfinalizer")
  /\ fixture' = [fixture EXCEPT !.finalizers = Append(@, cur.arg)]
  /\ pc' = pc + 1
  /\ elapsed' = 0
  /\ UNCHANGED <<fixed, status, ret, waited, pollVars, hostVars, stackVars,
                 lifetime, outVars, counts, idcalls, order, report, flow, scan>>

\* The harness reads the next line of the editor log: a line with an
\* unexpected string ends the scan at once when halt_on_unexpected is set.
ScanLine ==
  /\ At("launch")
  /\ scan.verdict = ""
  /\ scan.pos < Len(transcript)
  /\ LET line == transcript[scan.pos + 1]
         unexpected == \E j \in DOMAIN cur.arg[2] : cur.arg[2][j] \in line
     IN scan' = IF unexpected /\ cur.val = "True"
                THEN [scan EXCEPT !.pos = @ + 1, !.verdict = "fail", !.haltedAt = scan.pos + 1]
                ELSE [scan EXCEPT !.pos = @ + 1,
                                  !.found = @ \cup (Range(cur.arg[1]) \cap line),
                                  !.seen = @ \/ unexpected]
  /\ elapsed' = 0
  /\ UNCHANGED <<fixed, pc, status, ret, waited, pollVars, hostVars, stackVars,
                 lifetime, outVars, counts, idcalls, order, report, flow, fixture>>

\* The log is at its end: every expected line must have been found.
ScanEnd ==
  /\ At("launch")
  /\ scan.verdict = ""
  /\ scan.pos = Len(transcript)
  /\ scan' = [scan EXCEPT !.verdict =
                IF Range(cur.arg[1]) \subseteq scan.found /\ ~scan.seen THEN "pass" ELSE "fail"]
  /\ elapsed' = 0
  /\ UNCHANGED <<fixed, pc, status, ret, waited, pollVars, hostVars, stackVars,
                 lifetime, outVars, counts, idcalls, order, report, flow, fixture>>

\* launch_and_validate_results returns (the test passes) or fails the test.
LaunchReturns ==
  /\ At("launch")
  /\ scan.verdict # ""
  /\ fixture' = [fixture EXCEPT !.body = IF scan.verdict = "pass" THEN "passed" ELSE "failed"]
  /\ pc' = pc + 1
  /\ elapsed' = 0
  /\ UNCHANGED <<fixed, status, ret, waited, pollVars, hostVars, stackVars,
                 lifetime, outVars, counts, idcalls, order, report, flow, scan>>

\* The test body raises before any line is read (the editor does not start).
LaunchRaises ==
  /\ At("launch")
  /\ scan.verdict = "" /\ scan.pos = 0
  /\ fixture' = [fixture EXCEPT !.body = "raised"]
  /\ pc' = pc + 1
  /\ elapsed' = 0
  /\ UNCHANGED <<fixed, status, ret, waited, pollVars, hostVars, stackVars,
                 lifetime, outVars, counts, idcalls, order, report, flow, scan>>

\* After the test body, pytest runs the registered finalizers, last first,
\* whatever the body's outcome.
RunFinalizer ==
  /\ script = "pytest" /\ status = "running" /\ pc > Len(Prog)
  /\ fixture.finalizers # <<>>
  /\ LET n == Len(fixture.finalizers)
         f == fixture.finalizers[n]
     IN fixture' = [fixture EXCEPT
                      !.finalizers = SubSeq(@, 1, n - 1),
                      !.deletes = @ \o [j \in DOMAIN f |-> Deleted(f[j].text, "teardown")]]
  /\ elapsed' = 0
  /\ UNCHANGED <<fixed, pc, status, ret, waited, pollVars, hostVars, stackVars,
                 lifetime, outVars, counts, idcalls, order, report, flow, scan>>

PytestDone ==
  /\ script = "pytest" /\ status = "running" /\ pc > Len(Prog)
  /\ fixture.finalizers = <<>>
  /\ status' = "done"
  /\ elapsed' = 0
  /\ UNCHANGED <<fixed, pc, ret, waited, pollVars, hostVars, stackVars, lifetime,
                 outVars, counts, idcalls, order, report, flow, pytestVars>>

\* ------------------------------------------------------------------- spec
Next ==
  \/ Call \/ Undo \/ Redo
  \/ IdleTick \/ IdleDone
  \/ WaitBegin \/ WaitSatisfied \/ WaitTimeout \/ WaitYield
  \/ Log \/ LogLiteral \/ LogIf \/ LogProperty
  \/ Capture
  \/ Reset \/ Copy \/ BranchOnReturn \/ ReturnValue \/ Validate \/ Close
  \/ Finish
  \/ FsDelete \/ AddFinalizer
  \/ ScanLine \/ ScanEnd \/ LaunchReturns \/ LaunchRaises
  \/ RunFinalizer \/ PytestDone

Spec == Init /\ [][Next]_vars

\* ------------------------------------------------------------- properties

\* C1 -- Non-fatal timeout.  In the scripts built from the helpers of
\* TestAllComponentsIndepthTests, a log statement that follows a poll which
\* timed out logs its line with the value False, that line is the only one of
\* its check, and the script is still running, past the log statement; no run
\* of these scripts is aborted.
NonFatalTimeout ==
  script \in {"AllComponentsIndepthTests", "ComponentTest"} =>
    /\ status # "aborted"
    /\ (report.polled /\ report.result = "timeout") =>
         /\ report.val = "False"
         /\ Cardinality({j \in DOMAIN log : log[j].chk = report.chk}) = 1
         /\ status = "running"
         /\ Prog[pc - 1].op = "log" /\ Prog[pc - 1].chk = report.chk

\* A poll of the in-depth script has timed out and its line has been logged.
TimeoutLogged ==
  /\ script = "AllComponentsIndepthTests"
  /\ report.polled /\ report.result = "timeout"
  /\ log[Len(log)].val = "False"

\* C2 -- Order preservation in AllComponentsIndepthTests run().  The tests
\* start in the order setup, area light, spot light, grid, end and none is
\* re-entered; while a poll is unresolved control stays at it; the lines logged
\* so far are those of the log statements before pc, in program order; and
\* "Component tests completed" is logged once, as the last line, after all
\* three tests.
OrderPreserved ==
  script = "AllComponentsIndepthTests" =>
    LET declared == << "setup", "area_light_component_test", "spot_light_component_test",
                       "grid_component_test", "end" >>
        Emits(i) == i.op \in {"log", "say", "logprop"}
        emitted == SelectSeq(SubSeq(Prog, 1, pc - 1), Emits)
    IN /\ Len(order) <= Len(declared)
       /\ order = SubSeq(declared, 1, Len(order))
       /\ polling => Running /\ cur.op = "wait" /\ cur.chk = poll.chk
       /\ polling <=> poll.result = "polling"
       /\ Len(log) = Len(emitted)
       /\ \A j \in DOMAIN log : log[j].chk = emitted[j].chk
       /\ \A j \in DOMAIN log :
            log[j].text = CompletedLine =>
              j = Len(log) /\ order = declared /\ pc > Len(Prog)
       /\ status = "done" => log # <<>> /\ log[Len(log)].text = CompletedLine

\* The in-depth script has finished after a run in which the host deferred
\* requests, so that polls of it timed out.
AllTestsRanInOrder ==
  /\ script = "AllComponentsIndepthTests"
  /\ status = "done"
  /\ order = << "setup", "area_light_component_test", "spot_light_component_test",
                "grid_component_test", "end" >>
  /\ faults = MaxFaults
  /\ poll.result = "timeout"

\* C3 -- Halt on first unexpected line.  Once the harness has its verdict: if
\* some transcript line contains "Assert" or "Traceback (most recent call
\* last):", the verdict is failure, given at the first such line, with no
\* line read after it; and the verdict is pass only if no line contains an
\* unexpected string and every expected line occurs.
HaltsOnFirstUnexpected ==
  (script = "pytest" /\ scan.verdict # "") =>
    LET bad == {j \in DOMAIN transcript :
                  transcript[j] \cap {"Assert", "Traceback (most recent call last):"} # {}}
        occurring == UNION Range(transcript)
    IN /\ bad # {} =>
            /\ scan.verdict = "fail"
            /\ scan.haltedAt = CHOOSE j \in bad : \A k \in bad : j <= k
            /\ scan.pos = scan.haltedAt
       /\ scan.verdict = "pass" =>
            bad = {} /\ Range(expected_lines) \subseteq occurring

\* The harness has failed a transcript at its second line, a traceback with
\* expected lines before and after it.
HaltedAtTraceback ==
  /\ script = "pytest"
  /\ Len(transcript) = 3
  /\ transcript[1] = {expected_lines[1]}
  /\ transcript[2] = {"Traceback (most recent call last):"}
  /\ transcript[3] = {expected_lines[2]}
  /\ scan.verdict = "fail" /\ scan.haltedAt = 2

\* C4 -- One capture per take_screenshot_game_mode(name).  "<name>.ppm" is
\* captured at most once; not before the invocation has begun; and exactly
\* once by the time the invocation asks to leave game mode, whatever the two
\* polls returned.  The finished script has captured all fifteen.
OneCapturePerInvocation ==
  script = "AllComponentsIndepthTests" =>
    LET names == {"AreaLight_1", "AreaLight_2", "AreaLight_3", "AreaLight_4", "AreaLight_5",
                  "SpotLight_1", "SpotLight_2", "SpotLight_3", "SpotLight_4",
                  "Grid_1", "Grid_2", "Grid_3", "Grid_4", "Grid_5", "Grid_6"}
        captures(n) == Cardinality({j \in DOMAIN shots : shots[j] = n \o ".ppm"})
    IN /\ \A n \in names :
            /\ captures(n) <= 1
            /\ Count(<<n \o "/enter", "call">>) = 0 => captures(n) = 0
            /\ Count(<<n \o "/exit", "call">>) = 1 => captures(n) = 1
       /\ Range(shots) \subseteq {n \o ".ppm" : n \in names}
       /\ status = "done" => Len(shots) = Cardinality(names)

\* An invocation whose two polls both timed out has captured its screenshot.
CapturedThoughBothPollsTimedOut ==
  /\ script = "AllComponentsIndepthTests"
  /\ prevPoll.chk = "AreaLight_1/enter" /\ prevPoll.result = "timeout"
  /\ poll.chk = "AreaLight_1/exit" /\ poll.result = "timeout"
  /\ shots = << "AreaLight_1.ppm" >>

\* C5, as claimed -- No spurious delay.  A log statement whose poll found the
\* condition true at its first evaluation logs True, and the step has spent
\* fewer ticks since its mutation than the poll's timeout.
NoSpuriousDelay ==
  (report.polled /\ report.first) =>
    /\ report.val = "True"
    /\ report.ticks < report.timeout

\* C5 -- No spurious delay, but for the idle waits.  A log statement whose poll
\* found the condition true at its first evaluation logs True.  The hide step
\* of verify_hide_unhide_entity and the step of
\* verify_required_component_addition have then spent exactly their poll's
\* timeout (their idle_wait(1.0) before a poll of timeout 1.0), the redo step
\* of verify_deletion_undo_redo half of it, every other step no tick.
NoSpuriousDelayButIdleWaits ==
  (report.polled /\ report.first) =>
    /\ report.val = "True"
    /\ IF report.chk \in {"Area Light/hide", "Area Light/required"}
       THEN report.ticks = report.timeout
       ELSE IF report.chk = "Area Light/redo delete"
       THEN 2 * report.ticks = report.timeout
       ELSE report.ticks = 0

\* The hide step has logged success for a condition that held at the first
\* poll, a full timeout after its mutation.
HiddenAtFirstPollAfterFullTimeout ==
  /\ report.polled /\ report.first
  /\ report.chk = "Area Light/hide"
  /\ report.val = "True"
  /\ report.ticks = report.timeout

\* C6, as claimed -- ModelHotReloading run() always reaches close_editor.  A
\* run that has stopped has ended normally, with both screenshots captured and
\* the editor closed, and with one "OnModelReady never happened" line for
\* every reload that returned False.
HotReloadRunReachesClose ==
  (script = "ModelHotReloading" /\ ~Running) =>
    LET gaveUp == {a \in flow : a.fn = "copy_file_and_wait_for_on_model_ready" /\ ~a.val}
        never == {j \in DOMAIN log :
                    \E f \in {"vertexcolor.fbx", "novertexcolor.fbx",
                              "multi-mat_mesh-groups_1m_cubes.fbx", "sphere_5lods.fbx"} :
                      log[j].text = "OnModelReady never happened - " \o f}
    IN /\ status # "aborted"
       /\ closed
       /\ shots = << "screenshot_atom_ModelHotReload_VertexColor.ppm",
                     "screenshot_atom_ModelHotReload_NoVertexColor.ppm" >>
       /\ Cardinality(never) = Cardinality(gaveUp)

\* validate_material_slot_labels has raised at its line 241 and ended run()
\* before close_editor.
RunEndedByValidation ==
  /\ script = "ModelHotReloading"
  /\ status = "aborted"
  /\ ~closed
  /\ log # <<>>
  /\ log[Len(log)].text
       = "There was an expected material slot/lod combination that was not found"

\* C7 -- No retries.  No check issues its host mutation, its file copy or its
\* poll more than once.
NoRetries ==
  \A k \in DOMAIN counts : counts[k] = 1

\* A reload whose copy succeeded and whose poll timed out has been left behind:
\* the next reload's poll is in progress or over, and a copy has failed.
WentOnAfterTimeoutAndFailedCopy ==
  /\ script = "ModelHotReloading"
  /\ prevPoll.result = "timeout"
  /\ Count(<<prevPoll.chk, "copy">>) = 1 /\ Count(<<prevPoll.chk, "wait">>) = 1
  /\ poll.chk # prevPoll.chk /\ poll.chk # ""
  /\ \E j \in DOMAIN log : log[j].text = "ERROR: "

\* C8, as claimed -- Errors propagate only as log lines.  Whatever value a call
\* returned to the script, control went where it would have gone for the
\* other value.
ControlFlowIgnoresReturnedValues ==
  \A a \in flow : a.next = a.other

\* C8 -- run() drops the value of validate_material_slot_labels, and control
\* goes on to the next statement; the values of copy_file,
\* wait_for_condition and copy_file_and_wait_for_on_model_ready are branched
\* on, and they are the only ones.
OnlyReloadValuesAreBranchedOn ==
  \A a \in flow :
    /\ a.fn = "validate_material_slot_labels" => a.next = a.other /\ a.next = a.site + 1
    /\ a.fn # "validate_material_slot_labels" =>
         /\ a.fn \in {"copy_file", "wait_for_condition", "copy_file_and_wait_for_on_model_ready"}
         /\ script = "ModelHotReloading"
         /\ a.next # a.other

\* A validation has returned False and run() went on, and a reload has
\* returned False and run() branched to its log statement.
ValidationFailedAndReloadGaveUp ==
  /\ \E a \in flow : a.fn = "validate_material_slot_labels" /\ ~a.val
  /\ \E b \in flow : /\ b.fn = "copy_file_and_wait_for_on_model_ready" /\ ~b.val
                     /\ b.next = b.site + 1

\* C9 -- No use of an entity id outside its lifetime.  Every statement that
\* was given an entity's id was executed while the entity was live by the
\* script's own calls: created, and not deleted unless the deletion was undone.
IdsUsedWhileLive ==
  \A c \in idcalls : c[2] = "live"

\* The component test has finished: the entity was used by id, deleted, restored
\* by undo and deleted again by redo.
EntityUsedThenDeleted ==
  /\ script = "ComponentTest"
  /\ status = "done"
  /\ lifetime["Area Light"] = "deleted"
  /\ <<"Area Light", "live">> \in idcalls
  /\ Count(<<"Area Light/undo delete", "call">>) = 1

\* C10 -- setup_teardown.  When the test body starts, the level directory has
\* been deleted once and teardown is registered; when pytest is done, it has
\* been deleted exactly twice, the second time by teardown after the body,
\* whether the body passed, failed or raised.
LevelDirDeletedBeforeAndAfter ==
  script = "pytest" =>
    LET first == [path |-> LevelDir, phase |-> "setup", body |-> "notrun"]
    IN /\ (At("launch") \/ fixture.body # "notrun") =>
            fixture.deletes # <<>> /\ fixture.deletes[1] = first
       /\ At("launch") =>
            fixture.deletes = <<first>> /\ fixture.finalizers = <<teardown>>
       /\ status = "done" =>
            /\ fixture.body \in {"passed", "failed", "raised"}
            /\ fixture.deletes
                 = << first, [path |-> LevelDir, phase |-> "teardown", body |-> fixture.body] >>

\* pytest is done after a test body that raised, and the directory was deleted
\* again.
DeletedAfterBodyRaised ==
  /\ script = "pytest"
  /\ status = "done"
  /\ fixture.body = "raised"
  /\ Len(fixture.deletes) = 2
  /\ fixture.deletes[2].phase = "teardown"

\* C11 -- Component-addition undo/redo round trip.  The lines of
\* create_entity_undo_redo_component_addition are logged in the order "Component
\* added to the entity", "Component removed after UNDO", "Component added after
\* REDO", each at most once and each with the "<name>_test: " prefix; when the
\* third has been logged by a host that deferred nothing, all three carry True,
\* the entity has the component, and the command stack is as before the undo:
\* the addition on top, nothing to redo.
AdditionUndoRedoRoundTrip ==
  \A n \in {"area_light", "spot_light", "Area Light"} :
    LET Mine(l) == l.chk \in {n \o "/create", n \o "/undo add", n \o "/redo add"}
        mine == SelectSeq(log, Mine)
        lines == << [chk |-> n \o "/create",
                     text |-> n \o "_test: Component added to the entity: "],
                    [chk |-> n \o "/undo add",
                     text |-> n \o "_test: Component removed after UNDO: "],
                    [chk |-> n \o "/redo add",
                     text |-> n \o "_test: Component added after REDO: "] >>
        component == IF n = "Area Light" THEN "Area Light" ELSE "Light"
        has == <<n, "has " \o component>>
    IN /\ Len(mine) <= 3
       /\ \A j \in DOMAIN mine :
            mine[j].chk = lines[j].chk /\ mine[j].text = lines[j].text
       /\ (report.chk = n \o "/redo add" /\ faults = 0) =>
            /\ Len(mine) = 3
            /\ \A j \in DOMAIN mine : mine[j].val = "True"
            /\ host[has] = "true"
            /\ redoStack = <<>>
            /\ undoStack # <<>>
            /\ undoStack[Len(undoStack)] = Eff(has, "false", "true")

\* The third line of the spot light entity has been logged, after an undo and
\* a redo that the host applied at once.
AdditionRedone ==
  /\ report.chk = "spot_light/redo add"
  /\ report.val = "True"
  /\ report.result = "satisfied"
  /\ faults = 0
  /\ host[<<"spot_light", "has Light">>] = "true"

RequiredComponentLinesPrefixed ==
  script = "ComponentTest" =>
    LET n == "Area Light"
        Mine(l) == l.chk \in {"", n \o "/required"}
        mine == SelectSeq(log, Mine)
        added == Count(<<n \o "/required", "call">>)
    IN /\ Len(mine) <= 2
       /\ Len(mine) >= 1 => mine[1].text = n \o "_test: Entity disabled initially: "
       /\ Len(mine) = 2 =>
            /\ mine[2].text = n \o "_test: Entity enabled after adding required components: "
            /\ added = 1
       /\ added = 1 => Len(mine) >= 1

\* The first line of verify_required_component_addition has been logged,
\* before any component was added, and it has no prefix.
DisabledInitiallyLoggedBare ==
  /\ script = "ComponentTest"
  /\ Count(<<"Area Light/required", "call">>) = 0
  /\ log # <<>>
  /\ log[Len(log)].text = "Entity disabled initially: "
  /\ log[Len(log)].val = "True"

\* C14, as claimed -- verify_required_component_property_value logs that the
\* value "matches" the expected value only when the value read from the host
\* equals expected_property_value: every such line names the same value twice.
PropertyLineOnlyWhenEqual ==
  script = "AllComponentsIndepthTests" =>
    LET Emits(i) == i.op \in {"log", "say", "logprop"}
        emitted == SelectSeq(SubSeq(Prog, 1, pc - 1), Emits)
    IN \A j \in DOMAIN log :
         (j <= Len(emitted) /\ emitted[j].op = "logprop") =>
           log[j].text = emitted[j].prefix \o "Property value is " \o emitted[j].val
                           \o " which matches " \o emitted[j].val

\* The helper has logged that a value the host did not hold "matches".
MatchLoggedForAnotherValue ==
  /\ script = "AllComponentsIndepthTests"
  /\ log # <<>>
  /\ host[<<"area_light.components[0]", "Controller|Configuration|Light type">>]
       # "LIGHT_TYPES[3]"
  /\ log[Len(log)].text
       = "area_light_test: Property value is "
           \o host[<<"area_light.components[0]", "Controller|Configuration|Light type">>]
           \o " which matches LIGHT_TYPES[3]"

\* C15 -- area_light_component_test captures AreaLight_1..AreaLight_5 in that
\* order, each right after its own mutation and before the next one: red colour
\* on the Capsule light for 1, intensity 0.0 for 2, intensity 1000.0 for 3,
\* Spot (disk) rotated 90 degrees about x for 4, Point (sphere) for 5; and the
\* Capsule type is set before game mode is first entered.
AreaLightCapturesFollowMutations ==
  script = "AllComponentsIndepthTests" =>
    LET c0 == "area_light.components[0]"
        pair == "area_light.light_component_id_pair"
        type == host[<<pair, "Controller|Configuration|Light type">>]
        color == host[<<c0, "Controller|Configuration|Color">>]
        intensity == host[<<c0, "Controller|Configuration|Intensity">>]
        rotation == host[<<"area_light", "LocalRotation">>]
        IsAreaLight(x) == x \in {"AreaLight_" \o k \o ".ppm" : k \in {"1", "2", "3", "4", "5"}}
        taken == SelectSeq(shots, IsAreaLight)
        expected == [k \in 1..5 |->
                       "AreaLight_" \o <<"1", "2", "3", "4", "5">>[k] \o ".ppm"]
        JustCaptured(k) == /\ pc > 1
                           /\ Prog[pc - 1].op = "capture"
                           /\ Prog[pc - 1].text = expected[k]
    IN /\ Len(taken) <= 5
       /\ \A k \in 1..Len(taken) : taken[k] = expected[k]
       /\ JustCaptured(1) =>
            /\ type = "LIGHT_TYPES[3]"
            /\ color = "Color(255.0, 0.0, 0.0, 0.0)"
            /\ intensity = ""
       /\ JustCaptured(2) =>
            /\ type = "LIGHT_TYPES[3]"
            /\ intensity = "0.0"
       /\ JustCaptured(3) =>
            /\ type = "LIGHT_TYPES[3]"
            /\ intensity = "1000.0"
            /\ rotation = ""
       /\ JustCaptured(4) =>
            /\ type = "LIGHT_TYPES[2]"
            /\ rotation = "Vector3(DEGREE_RADIAN_FACTOR * 90.0, 0.0, 0.0)"
       /\ JustCaptured(5) => type = "LIGHT_TYPES[1]"
       /\ Count(<<"area_light/enter", "call">>) >= 1 => type # ""

\* AreaLight_5 has just been captured, after the four captures before it.
AreaLightFiveCaptured ==
  /\ script = "AllComponentsIndepthTests"
  /\ pc > 1
  /\ Prog[pc - 1].op = "capture"
  /\ Prog[pc - 1].text = "AreaLight_5.ppm"
  /\ Len(shots) = 5
  /\ host[<<"area_light.light_component_id_pair", "Controller|Configuration|Light type">>]
       = "LIGHT_TYPES[1]"

\* C16, as claimed -- the last step of the area light test deletes the Light
\* component from the "area_light" entity and verifies the deletion by a poll
\* and a logged line: when the test has ended the entity is still there
\* without its Light component, and the test's last statement logged a polled
\* check.
AreaLightEndsByDeletingComponent ==
  (/\ script = "AllComponentsIndepthTests"
   /\ pc > 1
   /\ pc - 1 <= Len(Prog)
   /\ Prog[pc - 1].test = "area_light_component_test"
   /\ (pc <= Len(Prog) => Prog[pc].test # "area_light_component_test"))
  => /\ host[<<"area_light", "has Light">>] = "false"
     /\ lifetime["area_light"] # "deleted"
     /\ Prog[pc - 1].op = "log"
     /\ Prog[pc - 1].chk # ""

\* The area light test has ended by deleting the whole entity, Light component
\* still attached, with nothing polled or logged after the last capture.
AreaLightEntityDeletedUnverified ==
  /\ script = "AllComponentsIndepthTests"
  /\ pc > 1
  /\ pc <= Len(Prog)
  /\ Prog[pc - 1].test = "area_light_component_test"
  /\ Prog[pc].test # "area_light_component_test"
  /\ Prog[pc - 1].api = "delete_entity"
  /\ lifetime["area_light"] = "deleted"
  /\ host[<<"area_light", "has Light">>] = "true"
  /\ shots[Len(shots)] = "AreaLight_5.ppm"

\* C17, as claimed -- the spot light test restores the level before it ends:
\* the "spot_light" entity is deleted, the ground_plane material is written
\* once more after the last capture, and the components the test disabled
\* (directional_light[0], global_skylight[0] and [1]) are enabled again.
SpotLightRestoresLevel ==
  (/\ script = "AllComponentsIndepthTests"
   /\ pc > 1
   /\ pc - 1 <= Len(Prog)
   /\ Prog[pc - 1].test = "spot_light_component_test"
   /\ (pc <= Len(Prog) => Prog[pc].test # "spot_light_component_test"))
  => /\ lifetime["spot_light"] = "deleted"
     /\ \A c \in {"directional_light.components[0]", "global_skylight.components[0]",
                  "global_skylight.components[1]"} :
          host[<<c, "enabled">>] # "false"
     /\ \E i, j \in 1..(pc - 1) :
          /\ i < j
          /\ Prog[i].op = "capture"
          /\ Prog[i].text = "SpotLight_4.ppm"
          /\ Prog[j].eff # <<>>
          /\ Prog[j].eff[1].key
               = <<"ground_plane.components[0]", "Default Material|Material Asset">>

\* The spot light test has ended on its last capture's exit from game mode:
\* the entity is live and the three components are still disabled.
SpotLightLeftLevelChanged ==
  /\ script = "AllComponentsIndepthTests"
  /\ pc > 1
  /\ pc <= Len(Prog)
  /\ Prog[pc - 1].test = "spot_light_component_test"
  /\ Prog[pc].test = "grid_component_test"
  /\ shots[Len(shots)] = "SpotLight_4.ppm"
  /\ lifetime["spot_light"] = "live"
  /\ host[<<"directional_light.components[0]", "enabled">>] = "false"
  /\ host[<<"global_skylight.components[0]", "enabled">>] = "false"
  /\ host[<<"global_skylight.components[1]", "enabled">>] = "false"

\* C18 -- the grid test ends by writing the Grid component's defaults back,
\* whatever the component held before: Grid Size 32, Axis Color (0, 0, 255),
\* Primary Grid Spacing 1.0, Primary Color (64, 64, 64), Secondary Grid
\* Spacing 1.0 and Secondary Color (128, 128, 128).
GridDefaultsRestored ==
  (/\ script = "AllComponentsIndepthTests"
   /\ pc > 1
   /\ pc - 1 <= Len(Prog)
   /\ Prog[pc - 1].test = "grid_component_test"
   /\ (pc <= Len(Prog) => Prog[pc].test # "grid_component_test"))
  => LET Grid(path) == host[<<"default_level.Grid", "Controller|Configuration|" \o path>>]
     IN /\ Grid("Grid Size") = "32.0"
        /\ Grid("Axis Color") = "Color(0.0 / 255.0, 0.0 / 255.0, 255.0 / 255.0, 255.0 / 255.0)"
        /\ Grid("Primary Grid Spacing") = "1.0"
        /\ Grid("Primary Color") = "Color(64.0 / 255.0, 64.0 / 255.0, 64.0 / 255.0, 255.0 / 255.0)"
        /\ Grid("Secondary Grid Spacing") = "1.0"
        /\ Grid("Secondary Color")
             = "Color(128.0 / 255.0, 128.0 / 255.0, 128.0 / 255.0, 255.0 / 255.0)"

\* The grid test has ended, after its six captures, with the defaults written.
GridTestEnded ==
  /\ script = "AllComponentsIndepthTests"
  /\ pc > 1
  /\ pc <= Len(Prog)
  /\ Prog[pc - 1].test = "grid_component_test"
  /\ Prog[pc].test # "grid_component_test"
  /\ shots[Len(shots)] = "Grid_6.ppm"
  /\ host[<<"default_level.Grid", "Controller|Configuration|Grid Size">>] = "32.0"

\* C19 -- copy_file_and_wait_for_on_model_ready returns True exactly when
\* copy_file succeeded and isModelReady became True within the 20 seconds of
\* the poll; it returns False when the copy failed, without polling at all,
\* and when the poll timed out.
ReloadReturnsCopiedAndReady ==
  (/\ script = "ModelHotReloading"
   /\ status = "running"
   /\ pc > 8
   /\ pc <= Len(Prog)
   /\ Prog[pc].op = "branch"
   /\ Prog[pc].api = "copy_file_and_wait_for_on_model_ready")
  => LET chk == Prog[pc - 7].chk
         copied == \E f \in flow : f.site = pc - 6 /\ f.fn = "copy_file" /\ f.val
         polled == poll.chk = chk
     IN /\ Prog[pc - 7].op = "copy"
        /\ Count(<<chk, "copy">>) = 1
        /\ ret <=> (copied /\ polled /\ poll.result = "satisfied")
        /\ ~copied => (~ret /\ ~polled /\ Count(<<chk, "wait">>) = 0)
        /\ copied => (polled /\ Count(<<chk, "wait">>) = 1 /\ poll.t = 40)
        /\ (polled /\ poll.result = "timeout") => ~ret

\* The helper has returned False because the poll ran out after a successful
\* copy.
ReloadTimedOutAfterCopy ==
  /\ script = "ModelHotReloading"
  /\ status = "running"
  /\ pc > 8
  /\ pc <= Len(Prog)
  /\ Prog[pc].op = "branch"
  /\ Prog[pc].api = "copy_file_and_wait_for_on_model_ready"
  /\ ~ret
  /\ poll.chk = Prog[pc - 7].chk
  /\ poll.result = "timeout"
  /\ \E f \in flow : f.site = pc - 6 /\ f.val

\* C20 -- validate_material_slot_labels returns True exactly when (1) every
\* non-default assignment has a lodIndex that is a key of the expected
\* dictionary and a slot label listed for that lodIndex, and (2) every
\* (lod, label) of the dictionary is the lod and label of at least one
\* non-default assignment; default assignments never change the result.
SlotLabelsValidated ==
  (/\ script \in Units
   /\ pc = 2 \/ status = "aborted")
  => LET d == input.dict
         NonDefault(a) == ~a.default
         assigned == SelectSeq(input.map, NonDefault)
         expected == Range(ExpectedPairs(d))
         allExpected == \A i \in DOMAIN assigned :
                          /\ assigned[i].lod \in Lods(d)
                          /\ assigned[i].label \in Labels(d, assigned[i].lod)
         allFound == \A e \in expected :
                       \E i \in DOMAIN assigned :
                         assigned[i].lod = e[1] /\ assigned[i].label = e[2]
     IN /\ (status # "aborted" /\ ret) <=> (allExpected /\ allFound)
        /\ validate_material_slot_labels(assigned, d).ret
             = validate_material_slot_labels(input.map, d).ret

\* The function has returned True for a map of three entries, one of them the
\* default assignment of a lod the dictionary does not have.
ValidatedAroundDefault ==
  /\ script \in Units
  /\ pc = 2
  /\ status = "running"
  /\ ret
  /\ Len(input.map) = 3
  /\ \E i \in DOMAIN input.map : input.map[i].default /\ input.map[i].lod = 7

\* C21, as claimed -- when an expected (lod, label) combination is not found
\* among assignments that are all expected ones, validate_material_slot_labels
\* returns False after logging "There was an expected material slot/lod
\* combination that was not found" and then a line that names the lod and the
\* slot label of a missing expected combination.
MissingCombinationReported ==
  LET d == input.dict
      NonDefault(a) == ~a.default
      assigned == SelectSeq(input.map, NonDefault)
      missing == {e \in Range(ExpectedPairs(d)) :
                    \A i \in DOMAIN assigned :
                      ~(assigned[i].lod = e[1] /\ assigned[i].label = e[2])}
      allExpected == \A i \in DOMAIN assigned :
                       /\ assigned[i].lod \in Lods(d)
                       /\ assigned[i].label \in Labels(d, assigned[i].lod)
  IN (/\ script \in Units
      /\ pc = 2 \/ status = "aborted"
      /\ allExpected
      /\ missing # {})
     => /\ status # "aborted"
        /\ ~ret
        /\ Len(log) = 2
        /\ log[1].text
             = "There was an expected material slot/lod combination that was not found"
        /\ \E e \in missing :
             log[2].text = "  lod: " \o LodString(e[1]) \o " slot label: " \o e[2]

\* The function has returned False for a map that lacks (1, "lambert3"), after
\* logging the lod and label of the assignment it saw last, which was found.
FoundCombinationReportedMissing ==
  /\ script \in Units
  /\ pc = 2
  /\ status = "running"
  /\ ~ret
  /\ input.dict = << Expect(0, <<"lambert0">>), Expect(1, <<"lambert3">>) >>
  /\ input.map = << Assignment(0, "lambert0", FALSE) >>
  /\ Len(log) = 2
  /\ log[2].text = "  lod: 0 slot label: lambert0"

\* C22 -- the Actor script logs "Actor asset property of actor is correctly
\* set" exactly when the value read back for 'Actor asset' has the string form
\* of the asset id it passed to SetComponentProperty; it logs "Entity
\* successfully created." only if the created entity's id is valid; and it
\* always captures exactly one screenshot and then calls close_editor,
\* whichever of its three success lines it logged.
ActorRoundTrip ==
  script = "C34389076_ActorComponent" =>
    LET Said(text) == {j \in DOMAIN log : log[j].text = text}
        At1(text) == CHOOSE i \in DOMAIN Prog : Prog[i].text = text
        set == At1(CorrectlySetLine)
        created == At1("Entity successfully created.")
        shot == "screenshot_atom_ActorComponent.ppm"
    IN /\ pc <= set => Said(CorrectlySetLine) = {}
       /\ pc = set + 1 =>
            (Said(CorrectlySetLine) # {} <=> host[ActorAssetKey] = to_string(actor_asset_id))
       /\ Cardinality(Said(CorrectlySetLine)) <= 1
       /\ pc <= created => Said("Entity successfully created.") = {}
       /\ (pc = created + 1 /\ Said("Entity successfully created.") # {}) =>
            host[<<"myEntityId", "exists">>] = "true"
       /\ Cardinality(Said("Entity successfully created.")) <= 1
       /\ Len(shots) <= 1
       /\ closed => shots = <<shot>>
       /\ ~Running => (status # "aborted" /\ closed /\ shots = <<shot>>)

\* The script has ended, one screenshot captured and the editor closed, with
\* neither the creation nor the round trip logged as successful.
ActorClosedWithoutSuccessLines ==
  /\ script = "C34389076_ActorComponent"
  /\ status = "done"
  /\ closed
  /\ shots = <<"screenshot_atom_ActorComponent.ppm">>
  /\ \A j \in DOMAIN log :
       log[j].text \notin {CorrectlySetLine, "Entity successfully created."}

====
